---- MODULE Spec2Model ----
(***************************************************************************)
(* A model of the CFSI pipeline (cloud-free Sentinel-2 mosaics): the       *)
(* mosaic compositor, the cloud-mask driver and the catalog indexers.      *)
(* Each subsystem has its own specification over the shared variables;     *)
(* the variables of the other subsystems stay at their idle values.        *)
(***************************************************************************)
EXTENDS Integers, Sequences, FiniteSets, TLC

VARIABLES
    \* ---- cfsi/scripts/mosaic/mosaic.py : MosaicCreator
    product_name,     \* self.__product_name
    recentness,       \* config.mosaic.recentness as passed to __mosaic_from_data_array
    ds,               \* the loaded time stack: Seq of [Pixels -> cell]
    clear,            \* history: Seq of [Pixels -> BOOLEAN], the clear predicate on the loaded stack
    out_arr,          \* out_arr of __mosaic_from_data_array
    recentness_arr,   \* recentness_arr of __mosaic_from_data_array
    index,            \* loop variable of the fill loop
    pcMosaic,         \* position in create_mosaic_dataset / __mosaic_from_data_array
    \* ---- cfsi/scripts/masks/cloud_mask_generator.py, fmask_masks.py : the mask run
    config_masks,     \* config.masks: generate, max_iterations, the two cloud thresholds
    environ,          \* os.environ: the two output roots the code reads
    l1c_datasets,     \* the candidates get_l1c_datasets returned
    i,                \* self.i
    max_iterations,   \* self.max_iterations
    total_iterations, \* self.total_iterations
    indexed_masks,    \* self.indexed_masks
    pos,              \* position of `for l1c_dataset in l1c_datasets`
    pcMask,           \* position in create_masks / _create_mask
    run,              \* number of create_masks runs started so far
    warnings,         \* warnings logged by the current run
    directories,      \* directories that exist on the output filesystem
    file_writes,      \* mask file path -> number of times the mask routine wrote it
    completed,        \* history: tiles masked and indexed by a run that returned
    threshold_result, \* what a lone call of _check_clouds_in_threshold returned
    \* ---- the dataset catalog (datacube index), shared by the mask run and the indexers
    catalog,          \* the stored dataset rows
    catalog_log,      \* history: the calls made on index.datasets, in order
    \* ---- add_dataset called by the two worker processes of index_from_s3_bucket.py
    add_dataset_impl, \* which add_dataset the workers run
    wpc,              \* worker -> position in add_dataset
    wdoc,             \* worker -> the dataset its resolver built from (doc, uri)
    werr,             \* worker -> err of add_dataset
    wfault,           \* history: worker -> the catalog raised an unexpected exception in this call
    calls,            \* worker -> add_dataset calls made so far
    \* ---- cfsi/scripts/index/s2_index.py : main and index_from_s3
    s3_objects,       \* bucket -> key -> what the object store holds under the key
    queue,            \* the Queue of main
    bucket_pos,       \* position of `for bucket_name in INDEX_BUCKETS`
    crawl_key,        \* key of index_from_s3
    pcCrawl,          \* position in main / index_from_s3
    passes,           \* number of main() runs started so far
    fetches,          \* history: the objects fetched from the store, in order
    \* ---- the generate_eo3_dataset_doc functions of the indexers
    doc_input,        \* the arguments the builders are applied to
    built,            \* the documents built so far, each with the name of its builder
    \* ---- index_from_s3_bucket.py : iterate_datasets and its worker processes
    bucket_objects,   \* key -> what the bucket given on the command line holds under the key
    work_queue,       \* manager.Queue() of iterate_datasets
    lister_pc,        \* position in iterate_datasets
    lister_n,         \* number of steps iterate_datasets has made in its current loop
    kpc,              \* worker -> position in worker
    kkey,             \* worker -> key of worker
    kfault,           \* history: worker -> why it left its loop other than by GUARDIAN
    dequeued,         \* history: what queue.get returned, in order, with the worker that got it
    handled,          \* history: the keys func was called for, in order, with the worker that called
    \* ---- cfsi/utils/utils.py : swap_s2_bucket_names and container_path_to_global_path, called directly
    util_calls,       \* history: the calls made on the two functions, in order, with what each returned or raised
    \* ---- cfsi/scripts/process/create_mosaics.py : create_mosaics with MosaicCreator and MosaicIndexer
    cm_config,        \* config.mosaic: products, dates, range
    cm_pc,            \* position in create_mosaics
    cm_runs,          \* number of create_mosaics runs started so far
    cm_error,         \* the exception that left the current run of create_mosaics
    mask_datasets,    \* self.__mask_datasets of the MosaicCreator of the current run
    mosaic_files,     \* mosaic file path -> number of times the file was written
    cm_log,           \* history: what each step of each run did
    \* ---- the command line of cfsi.py
    cli_argv,         \* sys.argv: the action tokens and the detach flag
    cli_pc,           \* where the CLI process is
    cli_ran,          \* history: the action methods called, in call order
    cli_stdout,       \* the lines printed
    cli_error,        \* the exception that is propagating, "" when none
    cli_exit,         \* <<exit code>> of the process, <<>> while it runs
    \* ---- cfsi/scripts/masks/s2cloudless_masks.py : generate_cloud_shadow_masks, called directly
    shadow_args,      \* the arguments of a call of generate_cloud_shadow_masks
    shadow_result,    \* what the call computed and returned or raised, <<>> before the call
    \* ---- cfsi/scripts/masks/cloud_mask_generator.py : fetch_s2_jp2_files
    img_data,         \* the names of the files in the IMG_DATA directory of the fetched tile
    jp2_result        \* what fetch_s2_jp2_files returned and whether it warned, <<>> before the call

varsMosaic == <<product_name, recentness, ds, clear, out_arr, recentness_arr, index, pcMosaic>>
varsMask == <<config_masks, environ, l1c_datasets, i, max_iterations, total_iterations,
              indexed_masks, pos, pcMask, run, warnings, directories, file_writes, completed>>
varsThreshold == <<threshold_result>>
varsCatalog == <<catalog, catalog_log>>

varsUpsert == <<add_dataset_impl, wpc, wdoc, werr, wfault, calls>>
varsCrawl == <<s3_objects, queue, bucket_pos, crawl_key, pcCrawl, passes, fetches>>
varsDocs == <<doc_input, built>>
varsWorkers == <<bucket_objects, work_queue, lister_pc, lister_n, kpc, kkey, kfault, dequeued, handled>>
varsUtils == <<util_calls>>
varsMosaicRun == <<cm_config, cm_pc, cm_runs, cm_error, mask_datasets, mosaic_files, cm_log>>
varsCli == <<cli_argv, cli_pc, cli_ran, cli_stdout, cli_error, cli_exit>>
varsShadow == <<shadow_args, shadow_result>>
varsBands == <<img_data, jp2_result>>
varsIndex == <<varsUpsert, varsCrawl, varsDocs, varsWorkers, varsUtils, varsMosaicRun, varsCli, varsShadow, varsBands>>

vars == <<varsMosaic, varsMask, varsThreshold, varsCatalog, varsIndex>>

\* What the actions of one subsystem leave alone.
othersMosaic == <<varsMask, varsThreshold, varsCatalog, varsIndex>>
othersMask == <<varsMosaic, varsThreshold, varsIndex>>
othersThreshold == <<varsMosaic, varsCatalog, varsIndex>>
othersUpsert == <<varsMosaic, varsMask, varsThreshold, varsCrawl, varsDocs, varsWorkers, varsUtils, varsMosaicRun, varsCli, varsShadow, varsBands>>
othersCrawl == <<varsMosaic, varsMask, varsThreshold, varsUpsert, varsDocs, varsWorkers, varsUtils, varsMosaicRun, varsCli, varsShadow, varsBands>>
othersDocs == <<varsMosaic, varsMask, varsThreshold, varsCatalog, varsUpsert, varsCrawl, varsWorkers, varsUtils, varsMosaicRun, varsCli, varsShadow, varsBands>>
othersWorkers == <<varsMosaic, varsMask, varsThreshold, varsUpsert, varsCrawl, varsDocs, varsUtils, varsMosaicRun, varsCli, varsShadow, varsBands>>
othersUtils == <<varsMosaic, varsMask, varsThreshold, varsCatalog, varsUpsert, varsCrawl, varsDocs, varsWorkers, varsMosaicRun, varsCli, varsShadow, varsBands>>
othersMosaicRun == <<varsMosaic, varsMask, varsThreshold, varsUpsert, varsCrawl, varsDocs, varsWorkers, varsUtils, varsCli, varsShadow, varsBands>>
othersCli == <<varsMosaic, varsMask, varsThreshold, varsCatalog, varsUpsert, varsCrawl, varsDocs, varsWorkers, varsUtils, varsMosaicRun, varsShadow, varsBands>>
othersShadow == <<varsMosaic, varsMask, varsThreshold, varsCatalog, varsUpsert, varsCrawl, varsDocs, varsWorkers, varsUtils, varsMosaicRun, varsCli, varsBands>>
othersBands == <<varsMosaic, varsMask, varsThreshold, varsCatalog, varsUpsert, varsCrawl, varsDocs, varsWorkers, varsUtils, varsMosaicRun, varsCli, varsShadow>>

(***************************************************************************)
(* Idle values: what a subsystem's variables hold in the specifications    *)
(* of the other subsystems.                                                *)
(***************************************************************************)

IdleMosaic ==
    /\ product_name = "" /\ recentness = 0 /\ ds = <<>> /\ clear = <<>>
    /\ out_arr = <<>> /\ recentness_arr = <<>> /\ index = 0 /\ pcMosaic = "idle"

IdleMask ==
    /\ config_masks = <<>> /\ environ = <<>> /\ l1c_datasets = <<>>
    /\ i = 0 /\ max_iterations = 0 /\ total_iterations = 0 /\ indexed_masks = <<>>
    /\ pos = 0 /\ pcMask = "idle" /\ run = 0 /\ warnings = {}
    /\ directories = {} /\ file_writes = <<>> /\ completed = {}

IdleThreshold == threshold_result = <<>>

IdleCatalog == catalog = {} /\ catalog_log = <<>>

IdleUpsert ==
    /\ add_dataset_impl = "" /\ wpc = <<>> /\ wdoc = <<>> /\ werr = <<>>
    /\ wfault = <<>> /\ calls = <<>>

IdleCrawl ==
    /\ s3_objects = <<>> /\ queue = <<>> /\ bucket_pos = 0 /\ crawl_key = ""
    /\ pcCrawl = "idle" /\ passes = 0 /\ fetches = <<>>

IdleDocs == doc_input = <<>> /\ built = {}

IdleWorkers ==
    /\ bucket_objects = <<>> /\ work_queue = <<>> /\ lister_pc = "idle" /\ lister_n = 0
    /\ kpc = <<>> /\ kkey = <<>> /\ kfault = <<>> /\ dequeued = <<>> /\ handled = <<>>

IdleUtils ==
    util_calls = <<>>

IdleMosaicRun ==
    /\ cm_config = <<>> /\ cm_pc = "idle" /\ cm_runs = 0 /\ cm_error = ""
    /\ mask_datasets = <<>> /\ mosaic_files = <<>> /\ cm_log = <<>>

IdleCli ==
    /\ cli_argv = <<>> /\ cli_pc = "idle" /\ cli_ran = <<>> /\ cli_stdout = <<>>
    /\ cli_error = "" /\ cli_exit = <<>>

IdleShadow == shadow_args = <<>> /\ shadow_result = <<>>

IdleBands == img_data = {} /\ jp2_result = <<>>

IdleIndex == IdleUpsert /\ IdleCrawl /\ IdleDocs /\ IdleWorkers /\ IdleUtils /\ IdleMosaicRun /\ IdleCli /\ IdleShadow /\ IdleBands

(***************************************************************************)
(* Mosaic compositor                                                       *)
(***************************************************************************)

\* Longest time stack that is explored.
MaxTime == 3
\* Days since epoch of the oldest slice of a stack; slice t is sensed on day FirstDay + t.
FirstDay == 18500
\* np.uint16 holds values modulo 2^16.
Uint16 == 65536

\* The raster is a grid of pixels; every array operation of the compositor is elementwise.
Pixels == {<<0, 0>>}
\* Digital numbers a band can carry.
DN == {0, 1, 2}
\* Fmask classes.
FmaskValues == 0..5

MaskProducts == {"s2_level1c_s2cloudless", "s2_level1c_fmask"}
ProductNames == MaskProducts \cup {"s2_level1c_other"}

\* One pixel of one time slice of the merged L2A + mask dataset.
Cell(v, c, s, f) == [band |-> v, cloud_mask |-> c, shadow_mask |-> s, fmask |-> f]

CellsFor(p) ==
    IF p = "s2_level1c_s2cloudless"
    THEN {Cell(v, c, s, 0) : v \in DN, c \in {0, 1}, s \in {0, 1}}
    ELSE IF p = "s2_level1c_fmask"
    THEN {Cell(v, 0, 0, f) : v \in DN, f \in FmaskValues}
    ELSE {Cell(v, 0, 0, 0) : v \in DN}

ZeroCell == Cell(0, 0, 0, 0)

\* Mutant of KeepCondition: the shadow mask and the fmask class 5 are not consulted.
KeepConditionCloudOnly(p, cell) ==
    IF p = "s2_level1c_s2cloudless"
    THEN cell.cloud_mask = 0
    ELSE cell.fmask = 1 \/ cell.fmask = 4

\* The condition handed to ds.where in __apply_mask.
KeepCondition(p, cell) ==
    IF p = "s2_level1c_s2cloudless"
    THEN cell.cloud_mask = 0 /\ cell.shadow_mask = 0
    ELSE cell.fmask = 1 \/ cell.fmask = 4 \/ cell.fmask = 5

\* ds.where(cond, 0): every data variable keeps its value where cond holds and becomes 0 elsewhere.
Where(p, slice) == [px \in Pixels |-> IF KeepCondition(p, slice[px]) THEN slice[px] ELSE ZeroCell]

\* time[t].astype('datetime64[D]').astype('uint16'); t is the 1-based position in the stack.
DaysSinceEpoch(t) == (FirstDay + t) % Uint16

InitMosaic ==
    /\ product_name \in ProductNames
    /\ recentness \in {0, 1, 2}
    /\ \E n \in 1..MaxTime : ds \in [1..n -> [Pixels -> CellsFor(product_name)]]
    /\ clear = <<>>
    /\ out_arr = [px \in Pixels |-> 0]
    /\ recentness_arr = [px \in Pixels |-> 0]
    /\ index = 0
    /\ pcMosaic = "loaded"
    /\ IdleMask /\ IdleThreshold /\ IdleCatalog /\ IdleIndex

\* __apply_mask, called from create_mosaic_dataset.
ApplyMask ==
    /\ pcMosaic = "loaded"
    /\ IF product_name \in MaskProducts
       THEN /\ ds' = [t \in 1..Len(ds) |-> Where(product_name, ds[t])]
            /\ clear' = [t \in 1..Len(ds) |-> [px \in Pixels |-> KeepCondition(product_name, ds[t][px])]]
            /\ pcMosaic' = "masked"
       ELSE /\ pcMosaic' = "ValueError"
            /\ UNCHANGED <<ds, clear>>
    /\ UNCHANGED <<product_name, recentness, out_arr, recentness_arr, index>>
    /\ UNCHANGED othersMosaic

\* __mosaic_from_data_array up to the loop: out_arr is the latest slice, recentness_arr its date.
MosaicSeed ==
    /\ pcMosaic = "masked"
    /\ out_arr' = [px \in Pixels |-> ds[Len(ds)][px].band]
    /\ recentness_arr' = IF recentness # 0
                         THEN [px \in Pixels |-> DaysSinceEpoch(Len(ds))]
                         ELSE recentness_arr
    /\ index' = Len(ds) - 1
    /\ pcMosaic' = "fill"
    /\ UNCHANGED <<product_name, recentness, ds, clear>>
    /\ UNCHANGED othersMosaic

\* Mutant of FillRecentness: the date is written to every pixel, not only to the empty ones.
FillRecentnessEverywhere(out, rec, t) == [px \in Pixels |-> DaysSinceEpoch(t)]

\* recentness_arr[out_arr == 0] = da_slice_time
FillRecentness(out, rec, t) == [px \in Pixels |-> IF out[px] = 0 THEN DaysSinceEpoch(t) ELSE rec[px]]

\* Mutant of FillOut: the slice overwrites the pixels where it has a value itself.
FillOutWhereSliceHasData(out, slice) ==
    [px \in Pixels |-> IF slice[px].band # 0 THEN slice[px].band ELSE out[px]]

\* Mutant of FillOut: the slice overwrites every pixel, not only the empty ones.
FillOutEverywhere(out, slice) == [px \in Pixels |-> slice[px].band]

\* out_arr[out_arr == 0] = da_slice.values[out_arr == 0]
FillOut(out, slice) == [px \in Pixels |-> IF out[px] = 0 THEN slice[px].band ELSE out[px]]

\* One iteration of `for index in range(len(da_in.time) - 2, -1, -1)`.
MosaicFill ==
    /\ pcMosaic = "fill"
    /\ index >= 1
    /\ recentness_arr' = IF recentness # 0
                         THEN FillRecentness(out_arr, recentness_arr, index)
                         ELSE recentness_arr
    /\ out_arr' = FillOut(out_arr, ds[index])
    /\ index' = index - 1
    /\ UNCHANGED <<product_name, recentness, ds, clear, pcMosaic>>
    /\ UNCHANGED othersMosaic

\* The loop is exhausted: da_out.values = out_arr and the dataset is returned.
MosaicReturn ==
    /\ pcMosaic = "fill"
    /\ index = 0
    /\ pcMosaic' = "done"
    /\ UNCHANGED <<product_name, recentness, ds, clear, out_arr, recentness_arr, index>>
    /\ UNCHANGED othersMosaic

NextMosaic == ApplyMask \/ MosaicSeed \/ MosaicFill \/ MosaicReturn

SpecMosaic == InitMosaic /\ [][NextMosaic]_vars

(***************************************************************************)
(* Properties of the mosaic reduction                                      *)
(***************************************************************************)

Max(S) == CHOOSE x \in S : \A y \in S : y <= x

\* Time indices at which the pixel is clear.
ClearTimes(px) == {t \in 1..Len(clear) : clear[t][px]}
\* Time indices at which the pixel is clear and its band value is not 0.
ClearNonZeroTimes(px) == {t \in ClearTimes(px) : ds[t][px].band # 0}

\* C1 (as stated): when the reduction has returned, every output pixel holds the band value of
\* the greatest time index at which the pixel is clear, whatever that value is (0 included),
\* and 0 when the pixel is clear at no time index.
C1_OutIsLatestClear ==
    pcMosaic = "done" =>
        \A px \in Pixels :
            out_arr[px] = IF ClearTimes(px) = {} THEN 0 ELSE ds[Max(ClearTimes(px))][px].band

\* C1 (amended): when the reduction has returned, every output pixel holds the band value of
\* the greatest time index at which the pixel is clear and its value is not 0, and 0 when
\* there is no such index: a clear 0 is nodata and is filled from older slices.
C1_OutIsLatestClearNonZero ==
    pcMosaic = "done" =>
        \A px \in Pixels :
            out_arr[px] = IF ClearNonZeroTimes(px) = {} THEN 0
                          ELSE ds[Max(ClearNonZeroTimes(px))][px].band

\* C1 witness: three slices, the latest cloudy, the two older ones clear with different
\* values; the output took the middle one.
C1_Witness ==
    /\ pcMosaic = "done"
    /\ Len(ds) = 3
    /\ \E px \in Pixels :
        /\ ~clear[3][px] /\ clear[2][px] /\ clear[1][px]
        /\ ds[2][px].band = 2 /\ ds[1][px].band = 1
        /\ out_arr[px] = 2

\* C2 (as stated): with recentness enabled, the recency of every pixel that is clear at some
\* time index is the day of the greatest time index at which it is clear.
C2_RecencyIsLatestClear ==
    (pcMosaic = "done" /\ recentness # 0) =>
        \A px \in Pixels :
            ClearTimes(px) # {} => recentness_arr[px] = DaysSinceEpoch(Max(ClearTimes(px)))

\* C2 (amended): with recentness enabled, the recency of every pixel that is clear with a
\* non-zero band value at some time index is the day of the greatest such index, the slice
\* that supplied the output value.
C2_RecencyIsLatestClearNonZero ==
    (pcMosaic = "done" /\ recentness # 0) =>
        \A px \in Pixels :
            ClearNonZeroTimes(px) # {} =>
                recentness_arr[px] = DaysSinceEpoch(Max(ClearNonZeroTimes(px)))

\* C2 witness: the latest of three slices is cloudy, the middle one supplied the pixel and
\* its day is the recency.
C2_Witness ==
    /\ pcMosaic = "done"
    /\ recentness = 1
    /\ Len(ds) = 3
    /\ \E px \in Pixels :
        /\ ~clear[3][px] /\ clear[2][px] /\ ds[2][px].band # 0
        /\ recentness_arr[px] = DaysSinceEpoch(2)
        /\ recentness_arr[px] # DaysSinceEpoch(3)

\* C30: an iteration of the fill loop leaves every output pixel that is not 0 as it is,
\* and the recency value of that pixel as well; it walks the time index downwards by one.
C30_FilledPixelsAreFinal ==
    [][pcMosaic = "fill" =>
        /\ \A px \in Pixels :
              out_arr[px] # 0 =>
                 /\ out_arr'[px] = out_arr[px]
                 /\ recentness_arr'[px] = recentness_arr[px]
        /\ index' \in {index, index - 1}]_vars

\* C30 witness: the latest of three slices gave the pixel its value; the two older slices
\* carry another value, and after the loop the pixel and its recency are those of the
\* latest slice.
C30_Witness ==
    /\ pcMosaic = "done"
    /\ recentness = 1
    /\ Len(ds) = 3
    /\ \E px \in Pixels :
        /\ ds[3][px].band = 1 /\ ds[2][px].band = 2 /\ ds[1][px].band = 2
        /\ out_arr[px] = 1
        /\ recentness_arr[px] = DaysSinceEpoch(3)

\* C21: __apply_mask keeps a pixel of a time step iff, for s2_level1c_s2cloudless, its
\* cloud_mask and shadow_mask are both 0 and, for s2_level1c_fmask, its fmask is 1, 4 or 5;
\* a kept pixel keeps its band value, every other pixel gets band value 0, the stack keeps
\* its length, and any other product name ends the call with ValueError, the data untouched.
C21_ClearPredicate ==
    [][pcMosaic = "loaded" =>
        IF product_name = "s2_level1c_s2cloudless"
        THEN /\ pcMosaic' = "masked"
             /\ Len(ds') = Len(ds)
             /\ \A t \in 1..Len(ds) : \A px \in Pixels :
                    ds'[t][px].band = IF ds[t][px].cloud_mask = 0 /\ ds[t][px].shadow_mask = 0
                                      THEN ds[t][px].band ELSE 0
        ELSE IF product_name = "s2_level1c_fmask"
        THEN /\ pcMosaic' = "masked"
             /\ Len(ds') = Len(ds)
             /\ \A t \in 1..Len(ds) : \A px \in Pixels :
                    ds'[t][px].band = IF ds[t][px].fmask \in {1, 4, 5}
                                      THEN ds[t][px].band ELSE 0
        ELSE pcMosaic' = "ValueError" /\ ds' = ds]_vars

\* C21 witness: a masked s2cloudless stack in which one slice kept its non-zero value and
\* another, flagged as shadow only, was zeroed.
C21_Witness ==
    /\ pcMosaic = "masked"
    /\ product_name = "s2_level1c_s2cloudless"
    /\ \E t1, t2 \in 1..Len(ds) : \E px \in Pixels :
        /\ clear[t1][px] /\ ds[t1][px].band = 2
        /\ ~clear[t2][px] /\ ds[t2][px].band = 0

(***************************************************************************)
(* The dataset catalog                                                     *)
(***************************************************************************)

\* md5(s.encode("utf-8")).hexdigest(): the digest of a string, taken as collision free.
Md5Hex(s) == <<"md5", s>>

CatalogHas(cat, id) == \E r \in cat : r.id = id
CatalogGet(cat, id) == CHOOSE r \in cat : r.id = id

\* What index.datasets.add(dataset) does with a row: a new id is inserted, a row that is
\* already stored unchanged is left alone, a different row under a stored id is refused.
AddOutcome(cat, d) ==
    IF ~CatalogHas(cat, d.id) THEN "inserted"
    ELSE IF CatalogGet(cat, d.id) = d THEN "unchanged"
    ELSE "DocumentMismatchError"

CatalogAfterAdd(cat, d) == IF CatalogHas(cat, d.id) THEN cat ELSE cat \cup {d}

\* index.datasets.update(dataset, {tuple(): changes.allow_any})
CatalogAfterUpdate(cat, d) == {r \in cat : r.id # d.id} \cup {d}

\* Doc2Dataset(index)(doc, uri): the dataset that is handed to the catalog.
Doc2Dataset(doc, uri) == [id |-> doc.id, product |-> doc.product, uri |-> uri, body |-> doc.body]

\* One call on index.datasets: the operation, the dataset handed over, the caller, and
\* what the catalog did with it.
LogEntry(op, d, who, result) == [op |-> op, id |-> d.id, doc |-> d, by |-> who, result |-> result]

\* add_dataset run to its end by a caller that nothing interleaves with:
\* add, and update when add raised DocumentMismatchError.
Upsert(cat, d) ==
    IF AddOutcome(cat, d) = "DocumentMismatchError"
    THEN CatalogAfterUpdate(cat, d)
    ELSE CatalogAfterAdd(cat, d)

UpsertLog(log, cat, d, who) ==
    IF AddOutcome(cat, d) = "DocumentMismatchError"
    THEN log \o <<LogEntry("add", d, who, "DocumentMismatchError"),
                  LogEntry("update", d, who, "updated")>>
    ELSE log \o <<LogEntry("add", d, who, AddOutcome(cat, d))>>

\* Number of calls of an operation on an id in the log.
Calls(log, op, id) == Cardinality({n \in 1..Len(log) : log[n].op = op /\ log[n].id = id})

(***************************************************************************)
(* The mask run: CloudMaskGenerator.create_masks with FmaskGenerator       *)
(***************************************************************************)

\* Most candidates of a run.
MaxTiles == 3
\* Largest configured max_iterations; 0 stands for an unset value.
MaxIter == 3
\* Most create_masks runs in a row.
MaxRuns == 2

\* cloudy_pixel_percentage values of the candidates: below, at and above the thresholds.
MaskRunPercentages == {0, 1, 2, 3}
MaskRunThresholds == [min_cloud_threshold : {1}, max_cloud_threshold : {2}]
OutputRoots == {"/output", "/data"}

\* FmaskGenerator.mask_product_name
MaskProductName == "s2_level1c_fmask"

L1CDataset(k, p) ==
    [tile_id |-> "T" \o ToString(k),
     s3_key |-> "tiles/" \o ToString(k),
     cloudy_pixel_percentage |-> p]

\* Paths are sequences of parts, as pathlib holds them.
Parent(path) == SubSeq(path, 1, Len(path) - 1)

RECURSIVE PathStr(_)
PathStr(path) ==
    IF Len(path) = 0 THEN ""
    ELSE IF Len(path) = 1 THEN path[1]
    ELSE PathStr(Parent(path)) \o "/" \o path[Len(path)]

\* cfsi.utils.utils.generate_s2_tif_path: rooted at CFSI_OUTPUT_CONTAINER.
generate_s2_tif_path(env, dataset, product) ==
    <<env.CFSI_OUTPUT_CONTAINER, dataset.s3_key, product, dataset.tile_id \o ".tif">>

\* cfsi.utils.write_utils.generate_s2_file_output_path: rooted at CFSI_CONTAINER_OUTPUT.
generate_s2_file_output_path(env, dataset, product) ==
    <<env.CFSI_CONTAINER_OUTPUT, dataset.s3_key, product, dataset.tile_id \o ".tif">>

check_existing_mask_directory(env, dirs, dataset, product) ==
    Parent(generate_s2_tif_path(env, dataset, product)) \in dirs

\* path.mkdir(parents=True, exist_ok=True)
Mkdir(dirs, path) == dirs \cup {SubSeq(path, 1, n) : n \in 1..Len(path)}

\* Mutant of check_clouds_in_threshold: the comparisons exclude the boundaries.
check_clouds_exclusive(cfg, dataset) ==
    LET cloud_percent == dataset.cloudy_pixel_percentage
    IN IF cloud_percent >= cfg.max_cloud_threshold THEN FALSE
       ELSE IF cloud_percent <= cfg.min_cloud_threshold THEN FALSE
       ELSE TRUE

\* CloudMaskGenerator._check_clouds_in_threshold: the in_threshold it returns.
check_clouds_in_threshold(cfg, dataset) ==
    LET cloud_percent == dataset.cloudy_pixel_percentage
    IN IF cloud_percent > cfg.max_cloud_threshold THEN FALSE
       ELSE IF cloud_percent < cfg.min_cloud_threshold THEN FALSE
       ELSE TRUE

\* Mutant of should_process: the threshold policy is dropped.
should_process_no_threshold(cfg, env, dirs, dataset) ==
    ~check_existing_mask_directory(env, dirs, dataset, MaskProductName)

\* CloudMaskGenerator._should_process: the value it returns.
should_process(cfg, env, dirs, dataset) ==
    IF check_existing_mask_directory(env, dirs, dataset, MaskProductName) THEN FALSE
    ELSE IF ~check_clouds_in_threshold(cfg, dataset) THEN FALSE
    ELSE TRUE

\* The Tile_Geocoding element of a tile metadata document: the tile of 109800 m a side
\* that the documents of the model describe.
Tile_Geocoding(data) ==
    [HORIZONTAL_CS_CODE |-> "EPSG:32635",
     Size |-> [resolution \in {"10", "20", "60"} |->
                 LET dim == IF resolution = "10" THEN 10 ELSE IF resolution = "20" THEN 20 ELSE 60
                 IN [NROWS |-> 109800 \div dim, NCOLS |-> 109800 \div dim]],
     Geoposition |-> [resolution \in {"10", "20", "60"} |->
                 LET dim == IF resolution = "10" THEN 10 ELSE IF resolution = "20" THEN 20 ELSE 60
                 IN [ULX |-> 399960, ULY |-> 1100040, XDIM |-> dim, YDIM |-> 0 - dim]]]

\* A string with every character of `from` replaced by the character of `to` in its place.
RECURSIVE MapChars(_, _, _)
MapChars(s, from, to) ==
    IF s = "" THEN ""
    ELSE LET c == SubSeq(s, 1, 1)
             at == {k \in 1..Len(from) : SubSeq(from, k, k) = c}
         IN (IF at = {} THEN c ELSE LET k == CHOOSE k \in at : TRUE IN SubSeq(to, k, k))
            \o MapChars(SubSeq(s, 2, Len(s)), from, to)

\* str.lower() and str.upper() of a CRS code
Lower(s) == MapChars(s, "EPSG", "epsg")
Upper(s) == MapChars(s, "epsg", "EPSG")

\* s2_index.read_tile_metadata: the crs code
read_tile_metadata(data) == [crs_code |-> Lower(Tile_Geocoding(data).HORIZONTAL_CS_CODE)]

\* ODCIndexer.read_s2_tile_metadata: the crs code
read_s2_tile_metadata(data) == [crs_code |-> Upper(Tile_Geocoding(data).HORIZONTAL_CS_CODE)]

\* s2_index.read_grid_metadata
read_grid_metadata(data) ==
    [resolution \in {"10", "20", "60"} |->
        LET size == Tile_Geocoding(data).Size[resolution]
            geoposition == Tile_Geocoding(data).Geoposition[resolution]
        IN [nrows |-> size.NROWS, ncols |-> size.NCOLS,
            trans |-> <<geoposition.XDIM, 0, geoposition.ULX, 0,
                        geoposition.YDIM, geoposition.ULY, 0, 0, 1>>]]

\* Mutant of read_s2_grid_metadata: ULX and ULY change places in the transform.
read_s2_grid_metadata_swapped(data) ==
    [resolution \in {"10", "20", "60"} |->
        LET size == Tile_Geocoding(data).Size[resolution]
            geoposition == Tile_Geocoding(data).Geoposition[resolution]
        IN [nrows |-> size.NROWS, ncols |-> size.NCOLS,
            trans |-> <<geoposition.XDIM, 0, geoposition.ULY, 0,
                        geoposition.YDIM, geoposition.ULX, 0, 0, 1>>]]

\* ODCIndexer.read_s2_grid_metadata
read_s2_grid_metadata(data) ==
    [resolution \in {"10", "20", "60"} |->
        LET size == Tile_Geocoding(data).Size[resolution]
            geoposition == Tile_Geocoding(data).Geoposition[resolution]
        IN [nrows |-> size.NROWS, ncols |-> size.NCOLS,
            trans |-> <<geoposition.XDIM, 0, geoposition.ULX, 0,
                        geoposition.YDIM, geoposition.ULY, 0, 0, 1>>]]

\* The entry of "grids" the document builders write for one resolution.
Grid(grids, resolution) ==
    [shape |-> <<grids[resolution].nrows, grids[resolution].ncols>>,
     transform |-> grids[resolution].trans]

\* The tile metadata document get_object_from_s3_uri fetches for an L1C dataset.
L1CMetadataDoc(dataset) == "xml"

\* FmaskIndexer.generate_eo3_dataset_doc for the mask file of a candidate.
FmaskDoc(mask_path, dataset) ==
    LET uri == "file://" \o PathStr(Parent(mask_path))
        data == L1CMetadataDoc(dataset)
    IN [id |-> Md5Hex(uri),
        product |-> "s2a_level1c_fmask",
        uri |-> uri,
        body |-> [tile_id |-> dataset.tile_id,
                  crs |-> read_s2_tile_metadata(data).crs_code,
                  grids |-> [default |-> Grid(read_s2_grid_metadata(data), "20")],
                  measurements |-> <<PathStr(mask_path)>>]]

\* Mutant of WriteFile: the mask routine leaves no file behind.
WriteNoFile(fw, path) == fw

\* The mask routine writes its raster to path.
WriteFile(fw, path) ==
    IF path \in DOMAIN fw THEN [fw EXCEPT ![path] = @ + 1] ELSE fw @@ (path :> 1)

InitMask ==
    /\ \E th \in MaskRunThresholds, g \in BOOLEAN, m \in 0..MaxIter :
         config_masks = [generate |-> g, max_iterations |-> m,
                         min_cloud_threshold |-> th.min_cloud_threshold,
                         max_cloud_threshold |-> th.max_cloud_threshold]
    /\ environ \in [CFSI_OUTPUT_CONTAINER : {"/output"}, CFSI_CONTAINER_OUTPUT : OutputRoots]
    /\ \E n \in 0..MaxTiles : \E f \in [1..n -> MaskRunPercentages] :
         l1c_datasets = [k \in 1..n |-> L1CDataset(k, f[k])]
    /\ i = 1
    /\ max_iterations = config_masks.max_iterations
    /\ total_iterations = 0
    /\ indexed_masks = <<>>
    /\ pos = 0
    /\ pcMask = "constructed"
    /\ run = 0
    /\ warnings = {}
    /\ directories = {}
    /\ file_writes = <<>>
    /\ completed = {}
    /\ IdleCatalog
    /\ IdleThreshold
    /\ IdleMosaic
    /\ IdleIndex

\* Mutant of effective_max_iterations: the configured value is used as it is.
configured_max_iterations(n, configured) == configured

\* create_masks: `if len(l1c_datasets) < self.max_iterations or not self.max_iterations`.
effective_max_iterations(n, configured) ==
    IF n < configured \/ configured = 0 THEN n ELSE configured

\* A run starts: FmaskGenerator() is constructed and create_masks runs up to its loop.
StartRun ==
    /\ pcMask \in {"constructed", "returned", "raised"}
    /\ run < MaxRuns
    /\ run' = run + 1
    /\ i' = 1
    /\ indexed_masks' = <<>>
    /\ max_iterations' = effective_max_iterations(Len(l1c_datasets), config_masks.max_iterations)
    /\ total_iterations' = max_iterations'
    /\ pos' = 1
    /\ warnings' = {}
    /\ pcMask' = "loop"
    /\ UNCHANGED <<config_masks, environ, l1c_datasets, directories, file_writes, completed>>
    /\ UNCHANGED <<varsCatalog, othersMask>>

\* FmaskGenerator._create_mask up to the mask step, for the candidate the loop is at.
CreateMask ==
    /\ pcMask = "loop"
    /\ pos <= Len(l1c_datasets)
    /\ IF ~config_masks.generate
       THEN /\ pcMask' = "after_loop"
            /\ UNCHANGED <<total_iterations, pos>>
       ELSE IF ~should_process(config_masks, environ, directories, l1c_datasets[pos])
       THEN /\ total_iterations' = total_iterations - 1
            /\ pos' = pos + 1
            /\ UNCHANGED pcMask
       ELSE /\ pcMask' = "create_fmask_file"
            /\ UNCHANGED <<total_iterations, pos>>
    /\ UNCHANGED <<config_masks, environ, l1c_datasets, i, max_iterations, indexed_masks,
                   run, warnings, directories, file_writes, completed>>
    /\ UNCHANGED <<varsCatalog, othersMask>>

\* The for loop of create_masks has no candidate left.
LoopExhausted ==
    /\ pcMask = "loop"
    /\ pos > Len(l1c_datasets)
    /\ pcMask' = "after_loop"
    /\ UNCHANGED <<config_masks, environ, l1c_datasets, i, max_iterations, total_iterations,
                   indexed_masks, pos, run, warnings, directories, file_writes, completed>>
    /\ UNCHANGED <<varsCatalog, othersMask>>

\* create_masks after its loop: the warning on an empty accumulator, and the return.
ReturnMasks ==
    /\ pcMask = "after_loop"
    /\ warnings' = IF Len(indexed_masks) = 0
                   THEN warnings \cup {"No new masks generated"}
                   ELSE warnings
    /\ completed' = completed \cup {indexed_masks[n].body.tile_id : n \in 1..Len(indexed_masks)}
    /\ pcMask' = "returned"
    /\ UNCHANGED <<config_masks, environ, l1c_datasets, i, max_iterations, total_iterations,
                   indexed_masks, pos, run, directories, file_writes>>
    /\ UNCHANGED <<varsCatalog, othersMask>>

\* FmaskGenerator.__create_fmask_file: the .SAFE fetch, the mkdir and the Fmask routine;
\* the fetch and the routine are external and may raise.
CreateFmaskFile ==
    /\ pcMask = "create_fmask_file"
    /\ LET mask_output_path ==
               generate_s2_file_output_path(environ, l1c_datasets[pos], MaskProductName)
       IN \E outcome \in {"written", "fetch raises", "fmask raises"} :
            /\ directories' = IF outcome = "fetch raises" THEN directories
                              ELSE Mkdir(directories, Parent(mask_output_path))
            /\ file_writes' = IF outcome = "written"
                              THEN WriteFile(file_writes, mask_output_path)
                              ELSE file_writes
            /\ pcMask' = IF outcome = "written" THEN "index_masks" ELSE "raised"
    /\ UNCHANGED <<config_masks, environ, l1c_datasets, i, max_iterations, total_iterations,
                   indexed_masks, pos, run, warnings, completed>>
    /\ UNCHANGED <<varsCatalog, othersMask>>

\* FmaskIndexer().index_masks and the append to indexed_masks; building the document
\* (L2A lookup, metadata.xml fetch) may raise, and so does index_masks on an indexing error.
IndexMasks ==
    /\ pcMask = "index_masks"
    /\ LET mask_output_path ==
               generate_s2_file_output_path(environ, l1c_datasets[pos], MaskProductName)
           eo3_doc == FmaskDoc(mask_output_path, l1c_datasets[pos])
       IN \E outcome \in {"indexed", "raises"} :
            IF outcome = "indexed"
            THEN /\ catalog' = Upsert(catalog, eo3_doc)
                 /\ catalog_log' = UpsertLog(catalog_log, catalog, eo3_doc, "mask")
                 /\ indexed_masks' = Append(indexed_masks, eo3_doc)
                 /\ pcMask' = "continue_iteration"
            ELSE /\ pcMask' = "raised"
                 /\ UNCHANGED <<catalog, catalog_log, indexed_masks>>
    /\ UNCHANGED <<config_masks, environ, l1c_datasets, i, max_iterations, total_iterations,
                   pos, run, warnings, directories, file_writes, completed>>
    /\ UNCHANGED othersMask

\* CloudMaskGenerator._continue_iteration and the loop's reaction to what it returns.
ContinueIteration ==
    /\ pcMask = "continue_iteration"
    /\ IF i > max_iterations
       THEN /\ warnings' = warnings \cup {"Reached maximum iterations count"}
            /\ pcMask' = "after_loop"
            /\ UNCHANGED <<i, pos>>
       ELSE /\ i' = i + 1
            /\ pos' = pos + 1
            /\ pcMask' = "loop"
            /\ UNCHANGED warnings
    /\ UNCHANGED <<config_masks, environ, l1c_datasets, max_iterations, total_iterations,
                   indexed_masks, run, directories, file_writes, completed>>
    /\ UNCHANGED <<varsCatalog, othersMask>>

NextMask ==
    \/ StartRun \/ CreateMask \/ LoopExhausted \/ ReturnMasks
    \/ CreateFmaskFile \/ IndexMasks \/ ContinueIteration

SpecMask == InitMask /\ [][NextMask]_vars

\* A run that has started is not suspended for ever: between the start of a run and its
\* return or exception a step is always possible, and steps keep being taken.
FairSpecMask ==
    SpecMask /\ ([]<>(pcMask \in {"constructed", "returned", "raised"}) \/ []<><<NextMask>>_vars)

(***************************************************************************)
(* _check_clouds_in_threshold on its own, over every percentage and every  *)
(* pair of thresholds                                                      *)
(***************************************************************************)

\* Largest percentage and threshold that is explored.
MaxPercent == 3

InitThreshold ==
    /\ \E lo \in 0..MaxPercent, hi \in 0..MaxPercent :
         config_masks = [generate |-> TRUE, max_iterations |-> 0,
                         min_cloud_threshold |-> lo, max_cloud_threshold |-> hi]
    /\ \E p \in 0..MaxPercent : l1c_datasets = <<L1CDataset(1, p)>>
    /\ environ = <<>>
    /\ i = 0 /\ max_iterations = 0 /\ total_iterations = 0 /\ indexed_masks = <<>>
    /\ pos = 0 /\ pcMask = "idle" /\ run = 0 /\ warnings = {}
    /\ directories = {} /\ file_writes = <<>> /\ completed = {}
    /\ threshold_result = <<>>
    /\ IdleCatalog
    /\ IdleMosaic
    /\ IdleIndex

\* One call of CloudMaskGenerator._check_clouds_in_threshold(dataset).
CheckCloudsInThreshold ==
    /\ threshold_result = <<>>
    /\ threshold_result' = <<l1c_datasets[1].cloudy_pixel_percentage,
                             check_clouds_in_threshold(config_masks, l1c_datasets[1])>>
    /\ UNCHANGED <<varsMask, othersThreshold>>

NextThreshold == CheckCloudsInThreshold

SpecThreshold == InitThreshold /\ [][NextThreshold]_vars

(***************************************************************************)
(* Properties of the mask run                                              *)
(***************************************************************************)

\* C3 (as stated): in a run, the number of candidates that were masked and indexed never
\* exceeds the effective maxIterations, min(configured maxIterations, number of candidates).
C3_IterationBound ==
    pcMask # "constructed" => Len(indexed_masks) <= max_iterations

\* The candidate the loop is at is rejected: its planned mask directory exists, or its
\* cloud percentage is above the maximum or below the minimum.
RejectedCandidate ==
    /\ pcMask = "loop"
    /\ pos <= Len(l1c_datasets)
    /\ config_masks.generate
    /\ \/ Parent(generate_s2_tif_path(environ, l1c_datasets[pos], MaskProductName)) \in directories
       \/ l1c_datasets[pos].cloudy_pixel_percentage > config_masks.max_cloud_threshold
       \/ l1c_datasets[pos].cloudy_pixel_percentage < config_masks.min_cloud_threshold

\* C4: the step taken on a rejected candidate writes no file, makes no directory, adds no
\* document to the catalog or to the accumulator, leaves i alone and moves the loop to the
\* next candidate.
C4_RejectedCandidateFrame ==
    [][RejectedCandidate =>
         /\ file_writes' = file_writes
         /\ directories' = directories
         /\ catalog' = catalog
         /\ catalog_log' = catalog_log
         /\ indexed_masks' = indexed_masks
         /\ i' = i
         /\ pos' = pos + 1
         /\ pcMask' = "loop"]_vars

\* C4 witness: the second run, having skipped the first candidate because its mask
\* directory exists, is at the second candidate with its counter still at 1.
C4_Witness ==
    /\ run = 2
    /\ pcMask = "loop"
    /\ Len(l1c_datasets) >= 2
    /\ pos = 2
    /\ i = 1
    /\ Parent(generate_s2_tif_path(environ, l1c_datasets[1], MaskProductName)) \in directories
    /\ total_iterations = max_iterations - 1
    /\ indexed_masks = <<>>

\* The index holds fewer L1C candidates than the configured maxIterations.
FewCandidates == Len(l1c_datasets) < config_masks.max_iterations

\* What create_masks guarantees when it has returned from a run over few candidates: the
\* effective maxIterations is the number of candidates, the for loop reached every
\* candidate, and the 'Reached maximum iterations count' warning was not logged.
VisitedEveryCandidate ==
    /\ max_iterations = Len(l1c_datasets)
    /\ pos >= Len(l1c_datasets)
    /\ "Reached maximum iterations count" \notin warnings

C29_ExistingDirectoryHasMask ==
    pcMask \in {"returned", "raised"} =>
        \A n \in 1..Len(l1c_datasets) :
            Parent(generate_s2_tif_path(environ, l1c_datasets[n], MaskProductName)) \in directories
            => \E doc \in catalog :
                  /\ doc.product = "s2a_level1c_fmask"
                  /\ doc.body.tile_id = l1c_datasets[n].tile_id

\* C5: the in_threshold that _check_clouds_in_threshold returns is exactly
\* minCloudThreshold <= cloudyPixelPercentage <= maxCloudThreshold.
C5_ThresholdInclusive ==
    threshold_result # <<>> =>
        (threshold_result[2] <=>
            /\ config_masks.min_cloud_threshold <= threshold_result[1]
            /\ threshold_result[1] <= config_masks.max_cloud_threshold)

\* C5 witness: a percentage equal to the maximum and above the minimum was reported in
\* threshold.
C5_Witness ==
    /\ threshold_result # <<>>
    /\ threshold_result[1] = config_masks.max_cloud_threshold
    /\ threshold_result[1] > config_masks.min_cloud_threshold
    /\ threshold_result[2]

\* C6 (as stated): a candidate that a returned run masked and indexed is skipped by every
\* later run: its mask step does not start again, its mask file is written once and its
\* document is added once.
C6_RerunSkipsCompleted ==
    \A n \in 1..Len(l1c_datasets) :
        LET dataset == l1c_datasets[n]
            mask_file == generate_s2_file_output_path(environ, dataset, MaskProductName)
        IN dataset.tile_id \in completed =>
            /\ ~(pos = n /\ pcMask \in {"create_fmask_file", "index_masks", "continue_iteration"})
            /\ file_writes[mask_file] <= 1
            /\ Calls(catalog_log, "add", FmaskDoc(mask_file, dataset).id) <= 1

(***************************************************************************)
(* Strings and paths as the indexers handle them                           *)
(***************************************************************************)

\* s.endswith(suffix)
EndsWith(s, suffix) ==
    Len(s) >= Len(suffix) /\ SubSeq(s, Len(s) - Len(suffix) + 1, Len(s)) = suffix

\* s.startswith(prefix)
StartsWith(s, prefix) == Len(s) >= Len(prefix) /\ SubSeq(s, 1, Len(prefix)) = prefix

RECURSIVE SplitFrom(_, _, _, _, _)
SplitFrom(s, sep, n, cur, acc) ==
    IF n > Len(s) THEN Append(acc, cur)
    ELSE IF SubSeq(s, n, n) = sep THEN SplitFrom(s, sep, n + 1, "", Append(acc, cur))
    ELSE SplitFrom(s, sep, n + 1, cur \o SubSeq(s, n, n), acc)

\* s.split(sep) for a separator of one character
Split(s, sep) == SplitFrom(s, sep, 1, "", <<>>)

\* Path(s).parts of a path that does not start with a slash: empty components are dropped.
PathParts(s) == SelectSeq(Split(s, "/"), LAMBDA part : part # "")

\* "".join(parts)
RECURSIVE Concat(_)
Concat(parts) == IF parts = <<>> THEN "" ELSE Head(parts) \o Concat(Tail(parts))

\* s.replace(old, new)
RECURSIVE Replace(_, _, _)
Replace(s, old, new) ==
    IF Len(s) < Len(old) \/ Len(old) = 0 THEN s
    ELSE IF StartsWith(s, old)
         THEN new \o Replace(SubSeq(s, Len(old) + 1, Len(s)), old, new)
         ELSE SubSeq(s, 1, 1) \o Replace(SubSeq(s, 2, Len(s)), old, new)

(***************************************************************************)
(* The S2 crawl: main and index_from_s3 of s2_index.py                     *)
(***************************************************************************)

\* Most tile directories under the listed prefix of a bucket.
MaxKeys == 2
\* Most runs of main() in a row.
MaxPasses == 2

GUARDIAN == "GUARDIAN_QUEUE_EMPTY"
INDEX_BUCKETS == <<"sentinel-s2-l1c", "sentinel-s2-l2a">>

PRODUCT_NAMES(bucket_name) ==
    IF bucket_name = "sentinel-s2-l1c" THEN "s2a_level1c_granule" ELSE "s2a_sen2cor_granule"

\* The keys under Prefix='tiles/35/P/PM/2020/10/': a band file and the tile metadata.
BandKey(k) == "tiles/35/P/PM/2020/10/" \o ToString(k) \o "/0/B01.jp2"
MetadataKey(k) == "tiles/35/P/PM/2020/10/" \o ToString(k) \o "/0/metadata.xml"
MetadataKeys == {MetadataKey(k) : k \in 1..MaxKeys}

\* What a bucket can hold: under a metadata key nothing, a tile metadata document or
\* bytes that are not well-formed XML; next to them the band file of the first tile.
BucketContents ==
    {m @@ (BandKey(1) :> "jp2") : m \in [MetadataKeys -> {"absent", "xml", "malformed xml"}]}

\* bucket.objects.filter(Prefix=...): the keys the bucket holds, in key order.
RECURSIVE ListObjects(_, _)
ListObjects(objects, k) ==
    IF k > MaxKeys THEN <<>>
    ELSE SelectSeq(IF k = 1 THEN <<BandKey(k), MetadataKey(k)>> ELSE <<MetadataKey(k)>>,
                   LAMBDA key : objects[key] # "absent")
         \o ListObjects(objects, k + 1)

\* s2_index.get_s3_uri
get_s3_uri(bucket_name, key) ==
    "s3://" \o PathStr(<<bucket_name>> \o Parent(PathParts(key)))

\* s2_index.MEASUREMENTS: the first bands of each list.
MEASUREMENTS(bucket_name) ==
    IF bucket_name = "sentinel-s2-l1c" THEN <<"B01_60m", "B02_10m">>
    ELSE <<"B02_20m", "B02_60m", "B01_60m", "B02_10m">>

\* s2_index.generate_measurements: the path of each measurement.
generate_measurements(bucket_name) ==
    [n \in 1..Len(MEASUREMENTS(bucket_name)) |->
        LET measurement == MEASUREMENTS(bucket_name)[n]
            band == Split(measurement, "_")[1]
        IN (IF bucket_name = "sentinel-s2-l2a" THEN measurement ELSE band) \o ".jp2"]

\* s2_index.absolutify_s3_paths, on the paths of the measurements
absolutify_s3_paths(measurements, uri) ==
    [n \in 1..Len(measurements) |-> uri \o "/" \o measurements[n]]

\* s2_index.generate_eo3_dataset_doc
S2CrawlDoc(bucket_name, uri, data) ==
    [id |-> Md5Hex(uri),
     product |-> PRODUCT_NAMES(bucket_name),
     location |-> uri,
     body |-> [s3_key |-> PathStr(SubSeq(PathParts(uri), 3, Len(PathParts(uri)))),
               data |-> data,
               crs |-> read_tile_metadata(data).crs_code,
               grids |-> [default |-> Grid(read_grid_metadata(data), "10"),
                          20m |-> Grid(read_grid_metadata(data), "20"),
                          60m |-> Grid(read_grid_metadata(data), "60")],
               measurements |-> absolutify_s3_paths(generate_measurements(bucket_name), uri)]]

\* Number of times an object was fetched.
FetchCount(log, bucket_name, key) ==
    Cardinality({n \in 1..Len(log) : log[n] = <<bucket_name, key>>})

InitCrawl ==
    /\ s3_objects \in [{INDEX_BUCKETS[n] : n \in 1..Len(INDEX_BUCKETS)} -> BucketContents]
    /\ queue = <<>>
    /\ bucket_pos = 0
    /\ crawl_key = ""
    /\ pcCrawl = "idle"
    /\ passes = 0
    /\ fetches = <<>>
    /\ catalog = {}
    /\ catalog_log = <<>>
    /\ IdleMosaic /\ IdleMask /\ IdleThreshold /\ IdleUpsert /\ IdleDocs /\ IdleWorkers /\ IdleUtils /\ IdleMosaicRun /\ IdleCli /\ IdleShadow /\ IdleBands

\* main() starts: a new Queue, and the loop over INDEX_BUCKETS at its first bucket.
StartCrawl ==
    /\ pcCrawl \in {"idle", "finished", "raised"}
    /\ passes < MaxPasses
    /\ passes' = passes + 1
    /\ queue' = <<>>
    /\ bucket_pos' = 1
    /\ crawl_key' = ""
    /\ pcCrawl' = "list"
    /\ UNCHANGED <<s3_objects, fetches, varsCatalog, othersCrawl>>

\* The listing of one bucket: the keys that end with metadata.xml are queued, then GUARDIAN.
ListBucket ==
    /\ pcCrawl = "list"
    /\ queue' = queue
                \o SelectSeq(ListObjects(s3_objects[INDEX_BUCKETS[bucket_pos]], 1),
                             LAMBDA key : EndsWith(key, "metadata.xml"))
                \o <<GUARDIAN>>
    /\ pcCrawl' = "get"
    /\ UNCHANGED <<s3_objects, bucket_pos, crawl_key, passes, fetches, varsCatalog, othersCrawl>>

\* index_from_s3: queue.get(timeout=60); Empty and GUARDIAN end the loop.
QueueGet ==
    /\ pcCrawl = "get"
    /\ IF queue = <<>>
       THEN /\ pcCrawl' = "next_bucket"
            /\ UNCHANGED <<queue, crawl_key>>
       ELSE /\ queue' = Tail(queue)
            /\ IF Head(queue) = GUARDIAN
               THEN pcCrawl' = "next_bucket" /\ UNCHANGED crawl_key
               ELSE pcCrawl' = "fetch" /\ crawl_key' = Head(queue)
    /\ UNCHANGED <<s3_objects, bucket_pos, passes, fetches, varsCatalog, othersCrawl>>

\* index_from_s3: s3.Object(bucket_name, key).get(...); an error of the store is not caught.
Fetch ==
    /\ pcCrawl = "fetch"
    /\ fetches' = Append(fetches, <<INDEX_BUCKETS[bucket_pos], crawl_key>>)
    /\ \E outcome \in {"fetched", "raises"} :
         pcCrawl' = IF outcome = "fetched" THEN "parse" ELSE "raised"
    /\ UNCHANGED <<s3_objects, queue, bucket_pos, crawl_key, passes, varsCatalog, othersCrawl>>

\* index_from_s3: the XML is parsed, the document is built and add_dataset is called; a
\* ParseError is not caught, the err add_dataset returns is dropped, and an unexpected
\* exception of the catalog leaves add_dataset with UnboundLocalError.
IndexKey ==
    /\ pcCrawl = "parse"
    /\ LET bucket_name == INDEX_BUCKETS[bucket_pos]
           uri == get_s3_uri(bucket_name, crawl_key)
           data == s3_objects[bucket_name][crawl_key]
           dataset == Doc2Dataset(S2CrawlDoc(bucket_name, uri, data), uri)
       IN IF data = "malformed xml"
          THEN pcCrawl' = "raised" /\ UNCHANGED varsCatalog
          ELSE \E outcome \in {"indexed", "resolver error", "catalog raises"} :
                 /\ catalog' = IF outcome = "indexed" THEN Upsert(catalog, dataset) ELSE catalog
                 /\ catalog_log' =
                        IF outcome = "indexed"
                        THEN UpsertLog(catalog_log, catalog, dataset, "s2_index")
                        ELSE IF outcome = "catalog raises"
                        THEN Append(catalog_log, LogEntry("add", dataset, "s2_index", "raised"))
                        ELSE catalog_log
                 /\ pcCrawl' = IF outcome = "catalog raises" THEN "raised" ELSE "get"
    /\ UNCHANGED <<s3_objects, queue, bucket_pos, crawl_key, passes, fetches, othersCrawl>>

\* main: index_from_s3 has returned; the loop goes to the next bucket or main ends.
NextBucket ==
    /\ pcCrawl = "next_bucket"
    /\ IF bucket_pos < Len(INDEX_BUCKETS)
       THEN bucket_pos' = bucket_pos + 1 /\ pcCrawl' = "list"
       ELSE pcCrawl' = "finished" /\ UNCHANGED bucket_pos
    /\ UNCHANGED <<s3_objects, queue, crawl_key, passes, fetches, varsCatalog, othersCrawl>>

NextCrawl == StartCrawl \/ ListBucket \/ QueueGet \/ Fetch \/ IndexKey \/ NextBucket

SpecCrawl == InitCrawl /\ [][NextCrawl]_vars

\* C7 (as stated): a metadata.xml key is added to the catalog at most once and never
\* updated, and once its id is in the catalog a later pass skips the key before its XML
\* is fetched or its document is built.
C7_SecondPassSkipsKey ==
    /\ \A n \in 1..Len(INDEX_BUCKETS), key \in MetadataKeys :
         LET id == Md5Hex(get_s3_uri(INDEX_BUCKETS[n], key))
         IN Calls(catalog_log, "add", id) <= 1 /\ Calls(catalog_log, "update", id) = 0
    /\ pcCrawl \in {"fetch", "parse"} =>
         ~CatalogHas(catalog, Md5Hex(get_s3_uri(INDEX_BUCKETS[bucket_pos], crawl_key)))

(***************************************************************************)
(* The dataset documents the indexers build                                *)
(***************************************************************************)

\* str(Path(s)): repeated and trailing slashes are dropped.
PathNormal(s) == (IF StartsWith(s, "/") THEN "/" ELSE "") \o PathStr(PathParts(s))

\* str(Path(s).parent)
ParentStr(s) == (IF StartsWith(s, "/") THEN "/" ELSE "") \o PathStr(Parent(PathParts(s)))

\* cfsi.utils.container_path_to_global_path for one path, given and returned as a string.
container_path_to_global_path(env, file_path) ==
    LET protocol == IF StartsWith(file_path, "file://") THEN "file://" ELSE ""
        file_string == SubSeq(file_path, Len(protocol) + 1, Len(file_path))
    IN IF StartsWith(file_string, env.CFSI_OUTPUT_CONTAINER)
       THEN PathNormal(protocol \o Replace(file_string, env.CFSI_OUTPUT_CONTAINER,
                                           env.CFSI_OUTPUT_HOST))
       ELSE file_path

\* index_from_s3_bucket.generate_eo3_dataset_doc
LegacyCrawlDoc(key, data) ==
    [id |-> Md5Hex(key),
     product |-> "s2a_sen2cor_granule",
     location |-> "http://sentinel-s2-l2a.s3.amazonaws.com/" \o PathStr(Parent(PathParts(key))),
     body |-> [region_code |-> Concat(SubSeq(PathParts(key), 2, 4)), data |-> data]]

\* The mask files s2cloudless writes for a tile: generate_s2_file_output_path with a band name.
s2cloudless_mask_path(env, dataset, band_name) ==
    <<env.CFSI_CONTAINER_OUTPUT, dataset.s3_key, "s2_level1c_s2cloudless",
      dataset.tile_id \o "_" \o band_name \o ".tif">>

\* S2CloudlessIndexer.generate_eo3_dataset_doc
S2CloudlessDoc(env, masks, dataset) ==
    LET cloud_mask_path == container_path_to_global_path(env, PathStr(masks.cloud_mask))
        shadow_mask_path == container_path_to_global_path(env, PathStr(masks.shadow_mask))
        uri == "file:/" \o ParentStr(cloud_mask_path)
        data == L1CMetadataDoc(dataset)
    IN [id |-> Md5Hex(uri),
        product |-> "s2a_level1c_s2cloudless",
        uri |-> uri,
        body |-> [tile_id |-> dataset.tile_id,
                  crs |-> read_s2_tile_metadata(data).crs_code,
                  grids |-> [default |-> Grid(read_s2_grid_metadata(data), "10")],
                  measurements |-> <<cloud_mask_path, shadow_mask_path>>]]

\* MosaicCreator.__generate_mosaic_output_path
generate_mosaic_output_path(env, end_date, mask_product_name, n) ==
    <<env.CFSI_OUTPUT_CONTAINER, "mosaics",
      end_date \o "_" \o mask_product_name \o "_" \o ToString(n) \o ".tif">>

\* MosaicIndexer.generate_eo3_dataset_doc
MosaicDoc(file_path) ==
    LET name == file_path[Len(file_path)]
        mask_name == Split(name, "_")[Len(Split(name, "_")) - 1]
        uri == "file://" \o PathStr(file_path)
    IN [id |-> Md5Hex(uri),
        product |-> mask_name \o "_mosaic",
        uri |-> uri,
        body |-> [tile_id |-> name, mask_name |-> mask_name,
                  measurements |-> <<uri, uri, uri, uri>>]]

\* The URI a document carries: "location" in the crawl documents, "uri" in the others.
DocUri(doc) == IF "location" \in DOMAIN doc THEN doc.location ELSE doc.uri

Builders ==
    {"s2_index.generate_eo3_dataset_doc", "index_from_s3_bucket.generate_eo3_dataset_doc",
     "FmaskIndexer.generate_eo3_dataset_doc", "S2CloudlessIndexer.generate_eo3_dataset_doc",
     "MosaicIndexer.generate_eo3_dataset_doc"}

InitDocs ==
    /\ doc_input \in
         [bucket_name : {INDEX_BUCKETS[n] : n \in 1..Len(INDEX_BUCKETS)},
          key : MetadataKeys,
          dataset : {L1CDataset(k, 1) : k \in 1..MaxTiles},
          environ : [CFSI_OUTPUT_CONTAINER : {"/output"},
                     CFSI_CONTAINER_OUTPUT : OutputRoots,
                     CFSI_OUTPUT_HOST : {"/home/ubuntu/cfsi_output"}],
          mask_product_name : MaskProducts]
    /\ built = {}
    /\ IdleMosaic /\ IdleMask /\ IdleThreshold /\ IdleCatalog /\ IdleUpsert /\ IdleCrawl /\ IdleWorkers /\ IdleUtils /\ IdleMosaicRun /\ IdleCli /\ IdleShadow /\ IdleBands

\* A builder that has not run yet is applied to the arguments.
Build(builder, doc) ==
    /\ \A b \in built : b.builder # builder
    /\ built' = built \cup {[builder |-> builder, doc |-> doc]}
    /\ UNCHANGED <<doc_input, othersDocs>>

BuildS2CrawlDoc ==
    Build("s2_index.generate_eo3_dataset_doc",
          S2CrawlDoc(doc_input.bucket_name,
                     get_s3_uri(doc_input.bucket_name, doc_input.key), "xml"))

BuildLegacyCrawlDoc ==
    Build("index_from_s3_bucket.generate_eo3_dataset_doc", LegacyCrawlDoc(doc_input.key, "xml"))

BuildFmaskDoc ==
    Build("FmaskIndexer.generate_eo3_dataset_doc",
          FmaskDoc(generate_s2_file_output_path(doc_input.environ, doc_input.dataset,
                                                MaskProductName),
                   doc_input.dataset))

BuildS2CloudlessDoc ==
    Build("S2CloudlessIndexer.generate_eo3_dataset_doc",
          S2CloudlessDoc(doc_input.environ,
                         [cloud_mask |-> s2cloudless_mask_path(doc_input.environ,
                                                               doc_input.dataset, "cloud_mask"),
                          shadow_mask |-> s2cloudless_mask_path(doc_input.environ,
                                                                doc_input.dataset, "shadow_mask")],
                         doc_input.dataset))

BuildMosaicDoc ==
    Build("MosaicIndexer.generate_eo3_dataset_doc",
          MosaicDoc(generate_mosaic_output_path(doc_input.environ, "2020-10-12",
                                                doc_input.mask_product_name, 0)))

NextDocs ==
    \/ BuildS2CrawlDoc \/ BuildLegacyCrawlDoc \/ BuildFmaskDoc
    \/ BuildS2CloudlessDoc \/ BuildMosaicDoc

SpecDocs == InitDocs /\ [][NextDocs]_vars

\* C8 (as stated): the id of every document an indexer builds is the md5 hex digest of
\* the URI the document carries as its location or uri.
C8_IdIsDigestOfUri ==
    \A b \in built : b.doc.id = Md5Hex(DocUri(b.doc))

\* C15 (as stated): every measurement path of every document the S2 crawl, the fmask
\* indexer, the s2cloudless indexer and the mosaic indexer build is a URI that starts with
\* s3:// or file://.
C15_MeasurementPathsAreUris ==
    \A b \in built :
        "measurements" \in DOMAIN b.doc.body =>
            \A n \in 1..Len(b.doc.body.measurements) :
                \/ StartsWith(b.doc.body.measurements[n], "s3://")
                \/ StartsWith(b.doc.body.measurements[n], "file://")

\* The mask documents built so far, and the L1C crawl document of the same metadata.xml.
BuiltMasks(builder) == {b.doc : b \in {c \in built : c.builder = builder}}
L1CCrawlDoc == S2CrawlDoc("sentinel-s2-l1c", get_s3_uri("sentinel-s2-l1c", doc_input.key), "xml")

MaxCalls == 1
\* The contents the metadata.xml under one key can have.
Versions == {"xml", "later xml"}

\* worker_count of iterate_datasets
Workers == {1, 2}

\* ODCIndexer.add_dataset (s2_index.add_dataset and S2CloudlessIndexer.add_dataset have
\* the same body) and add_dataset of index_from_s3_bucket.py.
AddDatasetImpls == {"ODCIndexer.add_dataset", "index_from_s3_bucket.add_dataset"}

\* The keys the two workers take from the queue.
UpsertKeys == {MetadataKey(1), MetadataKey(2)}

\* index_from_s3_bucket.get_s3_url
get_s3_url(bucket_name, obj_key) == "http://" \o bucket_name \o ".s3.amazonaws.com/" \o obj_key

\* What a worker hands to its resolver: the document built for a key and the URL of the key.
UpsertDocs ==
    {Doc2Dataset(LegacyCrawlDoc(key, v), get_s3_url("sentinel-s2-l2a", key)) :
        key \in UpsertKeys, v \in Versions}

\* `except Exception as err:` unbinds err when the handler ends, so the `return dataset, err`
\* that follows raises UnboundLocalError; `except Exception as e: err = e` keeps err.
HandlerUnbindsErr(impl) == impl = "ODCIndexer.add_dataset"

InitUpsert ==
    /\ add_dataset_impl \in AddDatasetImpls
    /\ wpc = [w \in Workers |-> "idle"]
    /\ wdoc = [w \in Workers |-> <<>>]
    /\ werr = [w \in Workers |-> "unset"]
    /\ wfault = [w \in Workers |-> FALSE]
    /\ calls = [w \in Workers |-> 0]
    /\ catalog \in {{}} \cup {{d} : d \in UpsertDocs}
    /\ catalog_log = <<>>
    /\ IdleMosaic /\ IdleMask /\ IdleThreshold /\ IdleCrawl /\ IdleDocs /\ IdleWorkers /\ IdleUtils /\ IdleMosaicRun /\ IdleCli /\ IdleShadow /\ IdleBands

\* A worker calls add_dataset(doc, uri, index).
CallAddDataset(w) ==
    /\ wpc[w] = "idle"
    /\ calls[w] < MaxCalls
    /\ \E d \in UpsertDocs : wdoc' = [wdoc EXCEPT ![w] = d]
    /\ calls' = [calls EXCEPT ![w] = @ + 1]
    /\ wpc' = [wpc EXCEPT ![w] = "resolver"]
    /\ werr' = [werr EXCEPT ![w] = "unset"]
    /\ wfault' = [wfault EXCEPT ![w] = FALSE]
    /\ UNCHANGED <<add_dataset_impl, varsCatalog, othersUpsert>>

\* dataset, err = resolver(doc, uri); an err is logged and returned.
Resolve(w) ==
    /\ wpc[w] = "resolver"
    /\ \E err \in {"None", "resolver error"} :
         /\ werr' = [werr EXCEPT ![w] = err]
         /\ wpc' = [wpc EXCEPT ![w] = IF err = "None" THEN "add" ELSE "returned"]
    /\ UNCHANGED <<add_dataset_impl, wdoc, wfault, calls, varsCatalog, othersUpsert>>

\* Mutant of AfterAdd: DocumentMismatchError is swallowed and update is never called.
AfterAddNoUpdate(outcome) == "returned"

\* Mutant of AfterAdd: DocumentMismatchError is not caught.
AfterAddUncaught(outcome) == IF outcome = "DocumentMismatchError" THEN "raised" ELSE "returned"

\* Where add_dataset goes after index.datasets.add: to the update of the
\* `except DocumentMismatchError` handler, or to its return.
AfterAdd(outcome) == IF outcome = "DocumentMismatchError" THEN "update" ELSE "returned"

\* After an exception of the catalog that is not DocumentMismatchError.
AfterException(impl) == IF HandlerUnbindsErr(impl) THEN "raised" ELSE "returned"

\* index.datasets.add(dataset) in the try block.
Add(w) ==
    /\ wpc[w] = "add"
    /\ \E fault \in BOOLEAN :
         IF fault
         THEN /\ catalog_log' = Append(catalog_log, LogEntry("add", wdoc[w], w, "raised"))
              /\ wfault' = [wfault EXCEPT ![w] = TRUE]
              /\ wpc' = [wpc EXCEPT ![w] = AfterException(add_dataset_impl)]
              /\ werr' = [werr EXCEPT ![w] = IF HandlerUnbindsErr(add_dataset_impl)
                                             THEN "unbound" ELSE "exception"]
              /\ UNCHANGED catalog
         ELSE /\ catalog' = CatalogAfterAdd(catalog, wdoc[w])
              /\ catalog_log' = Append(catalog_log,
                                       LogEntry("add", wdoc[w], w, AddOutcome(catalog, wdoc[w])))
              /\ wpc' = [wpc EXCEPT ![w] = AfterAdd(AddOutcome(catalog, wdoc[w]))]
              /\ UNCHANGED <<wfault, werr>>
    /\ UNCHANGED <<add_dataset_impl, wdoc, calls, othersUpsert>>

\* index.datasets.update(dataset, {tuple(): changes.allow_any}) in the handler; an
\* exception raised here leaves add_dataset.
Update(w) ==
    /\ wpc[w] = "update"
    /\ \E fault \in BOOLEAN :
         IF fault
         THEN /\ catalog_log' = Append(catalog_log, LogEntry("update", wdoc[w], w, "raised"))
              /\ wfault' = [wfault EXCEPT ![w] = TRUE]
              /\ wpc' = [wpc EXCEPT ![w] = "raised"]
              /\ UNCHANGED catalog
         ELSE /\ catalog' = CatalogAfterUpdate(catalog, wdoc[w])
              /\ catalog_log' = Append(catalog_log, LogEntry("update", wdoc[w], w, "updated"))
              /\ wpc' = [wpc EXCEPT ![w] = "returned"]
              /\ UNCHANGED wfault
    /\ UNCHANGED <<add_dataset_impl, wdoc, werr, calls, othersUpsert>>

\* add_dataset has returned (dataset, err); the worker goes on to its next key.
Returned(w) ==
    /\ wpc[w] = "returned"
    /\ wpc' = [wpc EXCEPT ![w] = "idle"]
    /\ UNCHANGED <<add_dataset_impl, wdoc, werr, wfault, calls, varsCatalog, othersUpsert>>

NextUpsert ==
    \E w \in Workers :
        \/ CallAddDataset(w) \/ Resolve(w) \/ Add(w) \/ Update(w) \/ Returned(w)

SpecUpsert == InitUpsert /\ [][NextUpsert]_vars

(***************************************************************************)
(* Properties of add_dataset                                               *)
(***************************************************************************)

\* The positions of the writes the catalog applied to an id.
AppliedWrites(log, id) ==
    {n \in 1..Len(log) : log[n].id = id /\ log[n].result \in {"inserted", "updated"}}

\* C9: add_dataset calls update exactly when its add raised DocumentMismatchError, and
\* when it returns without an error for a dataset d the catalog holds one record under
\* d.id, which is d, whatever was stored under that id before.
C9_UpsertLeavesDocument ==
    [][\A w \in Workers :
         /\ (wpc[w] = "add" /\ wpc'[w] # "add") =>
                ((wpc'[w] = "update") <=>
                    (AddOutcome(catalog, wdoc[w]) = "DocumentMismatchError" /\ ~wfault'[w]))
         /\ (wpc[w] \in {"add", "update"} /\ wpc'[w] = "returned" /\ werr'[w] = "None") =>
                {r \in catalog' : r.id = wdoc[w].id} = {wdoc[w]}]_vars

\* C9 witness: a worker has returned without an error from a call whose add was refused
\* and whose update replaced the record stored under the id.
C9_Witness ==
    \E w \in Workers :
        /\ wpc[w] = "returned"
        /\ werr[w] = "None"
        /\ Len(catalog_log) >= 2
        /\ catalog_log[Len(catalog_log)] = LogEntry("update", wdoc[w], w, "updated")
        /\ catalog_log[Len(catalog_log) - 1] = LogEntry("add", wdoc[w], w, "DocumentMismatchError")
        /\ {r \in catalog : r.id = wdoc[w].id} = {wdoc[w]}

\* C10: whatever the interleaving of the two workers, the catalog holds at most one record
\* per id, a worker fails only when the catalog raised something other than
\* DocumentMismatchError, and the record under an id is the dataset of the write that
\* was applied last.
C10_RaceOnOneId ==
    /\ \A r1 \in catalog, r2 \in catalog : r1.id = r2.id => r1 = r2
    /\ \A w \in Workers :
         (wpc[w] = "raised" \/ werr[w] \in {"exception", "unbound"}) => wfault[w]
    /\ \A key \in UpsertKeys :
         AppliedWrites(catalog_log, Md5Hex(key)) # {} =>
            {r \in catalog : r.id = Md5Hex(key)} =
                {catalog_log[Max(AppliedWrites(catalog_log, Md5Hex(key)))].doc}

\* C10 witness: on an empty catalog the two workers raced with different documents of one
\* id; one add inserted, the other was refused and updated, and both have returned
\* without an error.
C10_Witness ==
    \E w1 \in Workers, w2 \in Workers :
        /\ w1 # w2
        /\ wpc[w1] = "returned" /\ wpc[w2] = "returned"
        /\ werr[w1] = "None" /\ werr[w2] = "None"
        /\ wdoc[w1].id = wdoc[w2].id
        /\ wdoc[w1] # wdoc[w2]
        /\ Len(catalog_log) = 3
        /\ catalog_log[1] = LogEntry("add", wdoc[w1], w1, "inserted")
        /\ catalog_log[2] = LogEntry("add", wdoc[w2], w2, "DocumentMismatchError")
        /\ catalog_log[3] = LogEntry("update", wdoc[w2], w2, "updated")
        /\ catalog = {wdoc[w2]}

(***************************************************************************)
(* The crawl of index_from_s3_bucket.py: iterate_datasets feeds a queue    *)
(* that its worker processes empty                                         *)
(***************************************************************************)

\* Mutant of Sentinels: one GUARDIAN, however many workers there are.
SingleSentinel(worker_count) == <<GUARDIAN>>

\* The GUARDIAN values iterate_datasets puts for worker_count workers.
Sentinels(worker_count) == [n \in 1..worker_count |-> GUARDIAN]

\* A worker has left its loop: by GUARDIAN, by a poll that timed out or by an exception.
AllStopped == \A w \in Workers : kpc[w] = "stopped"

\* How often queue.get returned an item to a worker.
TimesDequeued(w, item) ==
    Cardinality({n \in 1..Len(dequeued) : dequeued[n] = [by |-> w, item |-> item]})

\* How often func was called for a key, by any worker.
TimesHandled(key) == Cardinality({n \in 1..Len(handled) : handled[n].key = key})

\* The keys iterate_datasets puts: the listed keys that end with metadata.xml.
KeysToPut(objects) ==
    SelectSeq(ListObjects(objects, 1), LAMBDA key : EndsWith(key, "metadata.xml"))

InitWorkers ==
    /\ bucket_objects \in BucketContents
    /\ work_queue = <<>>
    /\ lister_pc = "start_workers"
    /\ lister_n = 0
    /\ kpc = [w \in Workers |-> "not started"]
    /\ kkey = [w \in Workers |-> ""]
    /\ kfault = [w \in Workers |-> "none"]
    /\ dequeued = <<>>
    /\ handled = <<>>
    /\ catalog = {}
    /\ catalog_log = <<>>
    /\ IdleMosaic /\ IdleMask /\ IdleThreshold /\ IdleUpsert /\ IdleCrawl /\ IdleDocs /\ IdleUtils /\ IdleMosaicRun /\ IdleCli /\ IdleShadow /\ IdleBands

\* iterate_datasets: proc.start() for the next worker.
StartWorkerProcess ==
    /\ lister_pc = "start_workers"
    /\ kpc' = [kpc EXCEPT ![lister_n + 1] = "get"]
    /\ IF lister_n + 1 = Cardinality(Workers)
       THEN lister_pc' = "listing" /\ lister_n' = 0
       ELSE lister_n' = lister_n + 1 /\ UNCHANGED lister_pc
    /\ UNCHANGED <<bucket_objects, work_queue, kkey, kfault, dequeued, handled>>
    /\ UNCHANGED <<varsCatalog, othersWorkers>>

\* iterate_datasets: the next listed object; its key is put when it ends with metadata.xml.
ListerPut ==
    /\ lister_pc = "listing"
    /\ LET listing == ListObjects(bucket_objects, 1)
       IN IF lister_n = Len(listing)
          THEN lister_pc' = "guardians" /\ lister_n' = 0 /\ UNCHANGED work_queue
          ELSE /\ work_queue' = IF EndsWith(listing[lister_n + 1], "metadata.xml")
                                THEN Append(work_queue, listing[lister_n + 1])
                                ELSE work_queue
               /\ lister_n' = lister_n + 1
               /\ UNCHANGED lister_pc
    /\ UNCHANGED <<bucket_objects, kpc, kkey, kfault, dequeued, handled>>
    /\ UNCHANGED <<varsCatalog, othersWorkers>>

\* iterate_datasets: queue.put(GUARDIAN), once for every worker.
ListerGuardian ==
    /\ lister_pc = "guardians"
    /\ IF lister_n = Len(Sentinels(Cardinality(Workers)))
       THEN lister_pc' = "join" /\ lister_n' = 0 /\ UNCHANGED work_queue
       ELSE /\ work_queue' = Append(work_queue, Sentinels(Cardinality(Workers))[lister_n + 1])
            /\ lister_n' = lister_n + 1
            /\ UNCHANGED lister_pc
    /\ UNCHANGED <<bucket_objects, kpc, kkey, kfault, dequeued, handled>>
    /\ UNCHANGED <<varsCatalog, othersWorkers>>

\* iterate_datasets: proc.join() for every process returns once the process has ended.
ListerJoin ==
    /\ lister_pc = "join"
    /\ AllStopped
    /\ lister_pc' = "done"
    /\ UNCHANGED <<bucket_objects, work_queue, lister_n, kpc, kkey, kfault, dequeued, handled>>
    /\ UNCHANGED <<varsCatalog, othersWorkers>>

\* worker: queue.get(timeout=60) returns the head of the queue; GUARDIAN ends the loop.
WorkerGet(w) ==
    /\ kpc[w] = "get"
    /\ work_queue # <<>>
    /\ work_queue' = Tail(work_queue)
    /\ dequeued' = Append(dequeued, [by |-> w, item |-> Head(work_queue)])
    /\ IF Head(work_queue) = GUARDIAN
       THEN kpc' = [kpc EXCEPT ![w] = "stopped"] /\ UNCHANGED kkey
       ELSE kpc' = [kpc EXCEPT ![w] = "fetch"] /\ kkey' = [kkey EXCEPT ![w] = Head(work_queue)]
    /\ UNCHANGED <<bucket_objects, lister_pc, lister_n, kfault, handled>>
    /\ UNCHANGED <<varsCatalog, othersWorkers>>

\* Mutant of WorkerTimeout: queue.get without a timeout blocks on the empty queue.
WorkerBlocks(w) ==
    /\ kpc[w] = "get"
    /\ work_queue = <<>>
    /\ UNCHANGED vars

\* worker: the queue stayed empty for 60 seconds; Empty ends the loop.
WorkerTimeout(w) ==
    /\ kpc[w] = "get"
    /\ work_queue = <<>>
    /\ kpc' = [kpc EXCEPT ![w] = "stopped"]
    /\ kfault' = [kfault EXCEPT ![w] = "timeout"]
    /\ UNCHANGED <<bucket_objects, work_queue, lister_pc, lister_n, kkey, dequeued, handled>>
    /\ UNCHANGED <<varsCatalog, othersWorkers>>

\* worker: s3.Object(bucket_name, key).get(...); an error of the store ends the process.
WorkerFetch(w) ==
    /\ kpc[w] = "fetch"
    /\ \E outcome \in {"fetched", "raises"} :
         IF outcome = "fetched"
         THEN kpc' = [kpc EXCEPT ![w] = "index"] /\ UNCHANGED kfault
         ELSE kpc' = [kpc EXCEPT ![w] = "stopped"] /\ kfault' = [kfault EXCEPT ![w] = "raised"]
    /\ UNCHANGED <<bucket_objects, work_queue, lister_pc, lister_n, kkey, dequeued, handled>>
    /\ UNCHANGED <<varsCatalog, othersWorkers>>

\* worker: the XML is parsed, the document is built and func (add_dataset) is called; a
\* ParseError ends the process, and whatever add_dataset returns is dropped.
WorkerIndex(w) ==
    /\ kpc[w] = "index"
    /\ LET data == bucket_objects[kkey[w]]
           dataset == Doc2Dataset(LegacyCrawlDoc(kkey[w], data),
                                  get_s3_url("sentinel-s2-l2a", kkey[w]))
       IN IF data = "malformed xml"
          THEN /\ kpc' = [kpc EXCEPT ![w] = "stopped"]
               /\ kfault' = [kfault EXCEPT ![w] = "raised"]
               /\ UNCHANGED <<varsCatalog, handled>>
          ELSE /\ \E outcome \in {"indexed", "resolver error", "catalog raises"} :
                    /\ catalog' = IF outcome = "indexed" THEN Upsert(catalog, dataset)
                                  ELSE catalog
                    /\ catalog_log' =
                           IF outcome = "indexed"
                           THEN UpsertLog(catalog_log, catalog, dataset, w)
                           ELSE IF outcome = "catalog raises"
                           THEN Append(catalog_log, LogEntry("add", dataset, w, "raised"))
                           ELSE catalog_log
               /\ handled' = Append(handled, [by |-> w, key |-> kkey[w]])
               /\ kpc' = [kpc EXCEPT ![w] = "get"]
               /\ UNCHANGED kfault
    /\ UNCHANGED <<bucket_objects, work_queue, lister_pc, lister_n, kkey, dequeued>>
    /\ UNCHANGED othersWorkers

ListerStep == StartWorkerProcess \/ ListerPut \/ ListerGuardian \/ ListerJoin

WorkerStep(w) == WorkerGet(w) \/ WorkerFetch(w) \/ WorkerIndex(w)

NextWorkers ==
    \/ ListerStep
    \/ \E w \in Workers : WorkerStep(w) \/ WorkerTimeout(w)

SpecWorkers == InitWorkers /\ [][NextWorkers]_vars

\* Every process that can take a step of its code eventually takes one; a poll that
\* times out is not forced.  WorkerIndex(w) can be taken exactly when w is at "index",
\* and its weak fairness is written with that condition.
FairSpecWorkers ==
    /\ SpecWorkers
    /\ WF_vars(ListerStep)
    /\ \A w \in Workers :
         /\ WF_vars(WorkerGet(w) \/ WorkerFetch(w))
         /\ ([]<>(kpc[w] # "index") \/ []<><<WorkerIndex(w)>>_vars)

\* C11: a key is dequeued by at most one worker, once, and func is called for it at most
\* once; when no poll timed out and no worker raised, a worker has stopped exactly when it
\* has dequeued one GUARDIAN, and once all workers have stopped the queue is empty and func
\* was called exactly once for every key that ends with metadata.xml; and all workers
\* eventually stop and iterate_datasets returns.
C11_ProducerConsumer ==
    /\ [](/\ \A key \in MetadataKeys :
               /\ Cardinality({n \in 1..Len(dequeued) : dequeued[n].item = key}) <= 1
               /\ TimesHandled(key) <= 1
          /\ (\A w \in Workers : kfault[w] = "none") =>
               /\ \A w \in Workers :
                    TimesDequeued(w, GUARDIAN) = IF kpc[w] = "stopped" THEN 1 ELSE 0
               /\ AllStopped =>
                    /\ work_queue = <<>>
                    /\ \A n \in 1..Len(KeysToPut(bucket_objects)) :
                         TimesHandled(KeysToPut(bucket_objects)[n]) = 1)
    /\ <>(AllStopped /\ lister_pc = "done")

\* C11 witness: two keys were listed, each worker handled one of them, each worker then
\* took one GUARDIAN, and iterate_datasets has returned with the queue empty.
C11_Witness ==
    /\ lister_pc = "done"
    /\ AllStopped
    /\ \A w \in Workers : kfault[w] = "none" /\ TimesDequeued(w, GUARDIAN) = 1
    /\ Len(handled) = 2
    /\ handled[1].by # handled[2].by
    /\ handled[1].key # handled[2].key
    /\ work_queue = <<>>

\* The workers are scheduled and the clock of a poll runs: a worker at queue.get gets an
\* item or its poll times out, and the parent's start and join calls are made.  The parent
\* may stay for ever in its listing or before a put, so that the sentinels never arrive.
StalledSpecWorkers ==
    /\ SpecWorkers
    /\ WF_vars(StartWorkerProcess)
    /\ WF_vars(ListerJoin)
    /\ \A w \in Workers :
         /\ WF_vars(WorkerGet(w) \/ WorkerTimeout(w) \/ WorkerFetch(w))
         /\ ([]<>(kpc[w] # "index") \/ []<><<WorkerIndex(w)>>_vars)

\* C25: a worker whose poll finds the queue empty leaves its loop by Empty, which is not an
\* exception that ends the process, and calls func for nothing after that; a stopped worker
\* stays stopped; and whether or not the sentinels are put, every started worker
\* eventually stops and a join of the parent on all workers returns.
C25_StalledQueueTerminates ==
    /\ [][\A w \in Workers :
            /\ (kpc[w] = "get" /\ work_queue = <<>> /\ kpc'[w] # kpc[w]) =>
                 /\ kpc'[w] = "stopped"
                 /\ kfault'[w] = "timeout"
                 /\ handled' = handled
                 /\ catalog' = catalog
            /\ kpc[w] = "stopped" =>
                 /\ kpc'[w] = "stopped"
                 /\ kfault'[w] = kfault[w]
                 /\ \A n \in 1..Len(handled') : n > Len(handled) => handled'[n].by # w]_vars
    /\ \A w \in Workers : [](kpc[w] # "not started" => <>(kpc[w] = "stopped"))
    /\ [](lister_pc = "join" => <>(lister_pc = "done"))

\* C25 witness: both workers found the queue empty before a key was put and stopped by the
\* timeout; the parent then put two keys and the sentinels, and its join has returned.
C25_Witness ==
    /\ lister_pc = "done"
    /\ \A w \in Workers : kpc[w] = "stopped" /\ kfault[w] = "timeout"
    /\ handled = <<>>
    /\ Len(work_queue) = 4
    /\ work_queue[4] = GUARDIAN

\* C12 (as stated, for the S2 crawl): when the metadata.xml of the key index_from_s3 is at
\* cannot be parsed, the key is skipped: the loop goes on to its next queue.get and what
\* is left in the queue stays to be processed.
C12_MalformedTileSkipped ==
    [][(pcCrawl = "parse"
        /\ s3_objects[INDEX_BUCKETS[bucket_pos]][crawl_key] = "malformed xml")
       => (pcCrawl' = "get" /\ queue' = queue)]_vars

(***************************************************************************)
(* swap_s2_bucket_names and container_path_to_global_path, called one      *)
(* after the other on URIs and paths of every shape they tell apart        *)
(***************************************************************************)

\* Most calls in a row.
MaxUtilCalls == 2

L1C_BUCKET == "sentinel-s2-l1c"
L2A_BUCKET == "sentinel-s2-l2a"

\* sub in s
RECURSIVE Contains(_, _)
Contains(s, sub) ==
    IF Len(s) < Len(sub) THEN FALSE
    ELSE StartsWith(s, sub) \/ Contains(SubSeq(s, 2, Len(s)), sub)

\* What a call gave: the value it returned, or the exception that left it.
CallReturned(value) == [returned |-> value, raised |-> ""]
CallRaised(exception) == [returned |-> "", raised |-> exception]

\* cfsi.utils.swap_s2_bucket_names
swap_s2_bucket_names(uri) ==
    IF Contains(uri, L1C_BUCKET) THEN CallReturned(Replace(uri, L1C_BUCKET, L2A_BUCKET))
    ELSE IF Contains(uri, L2A_BUCKET) THEN CallReturned(Replace(uri, L2A_BUCKET, L1C_BUCKET))
    ELSE CallRaised("ValueError")

\* The URIs swap_s2_bucket_names is called on: the dataset URIs of the two crawled
\* buckets, an L1C object stored under a prefix that repeats the name of the L2A bucket,
\* and the URIs of a mask directory and of an object in another bucket.
SwapUris ==
    {get_s3_uri(INDEX_BUCKETS[b], key) : b \in 1..Len(INDEX_BUCKETS), key \in MetadataKeys}
    \cup {"s3://sentinel-s2-l1c/sentinel-s2-l2a/tiles/35/P/PM/2020/10/1/0",
          "file:///output/tiles/1/s2_level1c_fmask",
          "s3://sentinel-s1-l1c/tiles/35/P/PM/2020/10/1/0"}

\* os.environ as container_path_to_global_path reads it.
TranslateEnvirons ==
    [CFSI_OUTPUT_CONTAINER : {"/output"},
     CFSI_OUTPUT_HOST : {"/home/ubuntu/cfsi_output", "/mnt/cfsi"}]

\* The paths container_path_to_global_path is called on: under the container root with and
\* without the file:// scheme, under it with the root repeated further down, and outside it.
TranslatePaths ==
    {"/output/tiles/1/T1.tif", "file:///output/tiles/1/T1.tif",
     "/output/backup/output/T1.tif", "/data/tiles/1/T1.tif", "file:///data/tiles/1/T1.tif"}

InitUtils ==
    /\ util_calls = <<>>
    /\ IdleMosaic /\ IdleMask /\ IdleThreshold /\ IdleCatalog /\ IdleUpsert /\ IdleCrawl /\ IdleDocs /\ IdleWorkers /\ IdleMosaicRun /\ IdleCli /\ IdleShadow /\ IdleBands

\* swap_s2_bucket_names(uri), on a URI of SwapUris or on what an earlier call returned.
CallSwap ==
    /\ Len(util_calls) < MaxUtilCalls
    /\ \E uri \in SwapUris \cup {util_calls[n].returned :
                                   n \in {m \in 1..Len(util_calls) :
                                            /\ util_calls[m].fn = "swap_s2_bucket_names"
                                            /\ util_calls[m].raised = ""}} :
         util_calls' = Append(util_calls,
                              [fn |-> "swap_s2_bucket_names", arg |-> uri, env |-> <<>>]
                              @@ swap_s2_bucket_names(uri))
    /\ UNCHANGED othersUtils

\* container_path_to_global_path(file_path)
CallTranslate ==
    /\ Len(util_calls) < MaxUtilCalls
    /\ \E env \in TranslateEnvirons, file_path \in TranslatePaths :
         util_calls' = Append(util_calls,
                              [fn |-> "container_path_to_global_path", arg |-> file_path,
                               env |-> env]
                              @@ CallReturned(container_path_to_global_path(env, file_path)))
    /\ UNCHANGED othersUtils

NextUtils == CallSwap \/ CallTranslate

SpecUtils == InitUtils /\ [][NextUtils]_vars

C14_PrefixOnlyTranslation ==
    \A n \in 1..Len(util_calls) :
        util_calls[n].fn = "container_path_to_global_path" =>
            LET file_path == util_calls[n].arg
                containerRoot == util_calls[n].env.CFSI_OUTPUT_CONTAINER
                hostRoot == util_calls[n].env.CFSI_OUTPUT_HOST
                scheme == IF StartsWith(file_path, "file://") THEN "file://" ELSE ""
                path == SubSeq(file_path, Len(scheme) + 1, Len(file_path))
                rest == SubSeq(path, Len(containerRoot) + 1, Len(path))
            IN /\ util_calls[n].raised = ""
               /\ util_calls[n].returned =
                    IF StartsWith(path, containerRoot) THEN scheme \o hostRoot \o rest
                    ELSE file_path

(***************************************************************************)
(* create_mosaics: for the first product and date of the configuration a   *)
(* MosaicCreator is made, the mosaic dataset is built and written, and the *)
(* indexer is called; runs follow one another on one output directory      *)
(***************************************************************************)

\* Most runs of create_mosaics in a row.
MaxMosaicRuns == 2

\* The tiles that can have a mask dataset and an L2A dataset in the catalog.
MosaicTiles == 1..2

\* str(date) of a day of October 2020.
DateStr(day) == "2020-10-" \o ToString(day)

\* "/".join(Path(l1c_uri).parts[2:]) and the URI of the L2A dataset of a tile
TileKey(k) == PathStr(Parent(PathParts(MetadataKey(k))))
L2AUri(k) == get_s3_uri(L2A_BUCKET, MetadataKey(k))

\* The L2A dataset of a tile: the crawl of s2_index.py stores it under the product
\* s2a_sen2cor_granule, constants.S2_PRODUCT_NAMES has s2_sen2cor_granule for the bucket.
L2ADataset(k, product) ==
    [Doc2Dataset(S2CrawlDoc(L2A_BUCKET, L2AUri(k), "xml"), L2AUri(k)) EXCEPT !.product = product]

\* An id that `not l2a_dataset_id` is true of.
NoId == <<>>

\* What the "properties" of a stored mask dataset can say about its L2A dataset: the id
\* of the L2A dataset, an empty id next to the URI of the L2A dataset, an empty id alone,
\* or nothing.
L2AProperties(k) ==
    {[l2a_dataset_id |-> Md5Hex(L2AUri(k))],
     [l2a_dataset_id |-> NoId, l2a_uri |-> L2AUri(k)],
     [l2a_dataset_id |-> NoId],
     <<>>}

\* A mask dataset of the catalog, of the fmask product.
MaskDataset(k, day, l2a_properties) ==
    [id |-> Md5Hex("file:///output/tiles/" \o ToString(k) \o "/s2_level1c_fmask"),
     product |-> "s2_level1c_fmask",
     uri |-> "file:///output/tiles/" \o ToString(k) \o "/s2_level1c_fmask",
     body |-> [properties |-> [datetime |-> day, s3_key |-> TileKey(k)] @@ l2a_properties]]

\* What the catalog can hold when create_mosaics starts: for each tile no mask dataset or
\* one sensed on the 5th or the 11th, and no L2A dataset or one under either product name.
MosaicCatalogs ==
    LET MaskChoices(k) ==
            {{}} \cup {{MaskDataset(k, day, l2a_properties)} :
                          day \in {5, 11}, l2a_properties \in L2AProperties(k)}
        L2AChoices(k) ==
            {{}} \cup {{L2ADataset(k, product)} :
                          product \in {"s2a_sen2cor_granule", "s2_sen2cor_granule"}}
    IN {first \cup second \cup first_l2a \cup second_l2a :
          first \in MaskChoices(1), second \in MaskChoices(2),
          first_l2a \in L2AChoices(1), second_l2a \in L2AChoices(2)}

\* dc.find_datasets(product=..., time=(start, end)): the datasets found, by tile.
find_datasets(cat, product, time_range) ==
    LET Matches(k) == {d \in cat : /\ d.product = product
                                   /\ d.body.properties.s3_key = TileKey(k)
                                   /\ d.body.properties.datetime >= time_range[1]
                                   /\ d.body.properties.datetime <= time_range[2]}
        tiles == SelectSeq([k \in MosaicTiles |-> k], LAMBDA k : Matches(k) # {})
    IN [n \in 1..Len(tiles) |-> CHOOSE d \in Matches(tiles[n]) : TRUE]

\* Mutant of get_mask_datasets: an empty search is returned like any other.
get_mask_datasets_unchecked(cat, product, time_range) ==
    [datasets |-> find_datasets(cat, product, time_range), raised |-> ""]

\* MosaicCreator.__get_mask_datasets
get_mask_datasets(cat, product, time_range) ==
    IF find_datasets(cat, product, time_range) = <<>>
    THEN [datasets |-> <<>>, raised |-> "ValueError"]
    ELSE [datasets |-> find_datasets(cat, product, time_range), raised |-> ""]

\* load_datasets.odcdataset_from_uri(uri, product): the dataset of the product stored under
\* the URI; ProductNotFoundException when there is none.
odcdataset_from_uri(cat, uri, product) ==
    LET found == {d \in cat : d.product = product /\ d.uri = uri}
    IN IF found = {} THEN CallRaised("ProductNotFoundException")
       ELSE CallReturned((CHOOSE d \in found : TRUE).id)

\* MosaicCreator.__generate_mask_dict from a position of self.__mask_datasets on: the
\* dict built, or the exception that left the loop.
RECURSIVE generate_mask_dict(_, _, _, _)
generate_mask_dict(cat, datasets, n, mask_dict) ==
    IF n > Len(datasets) THEN [mask_dict |-> mask_dict, raised |-> ""]
    ELSE LET properties == datasets[n].body.properties
         IN IF "l2a_dataset_id" \notin DOMAIN properties
            THEN [mask_dict |-> mask_dict, raised |-> "KeyError"]
            ELSE IF properties.l2a_dataset_id # NoId
            THEN generate_mask_dict(cat, datasets, n + 1,
                                    mask_dict @@ (datasets[n].id :> properties.l2a_dataset_id))
            ELSE IF "l2a_uri" \notin DOMAIN properties
            THEN [mask_dict |-> mask_dict, raised |-> "KeyError"]
            ELSE LET l2a == odcdataset_from_uri(cat, properties.l2a_uri, "s2_sen2cor_granule")
                 IN IF l2a.raised = "ProductNotFoundException"
                    THEN generate_mask_dict(cat, datasets, n + 1, mask_dict)
                    ELSE generate_mask_dict(cat, datasets, n + 1,
                                            mask_dict @@ (datasets[n].id :> l2a.returned))

\* Mutant of mosaic_output_path: the path of the given number, whether or not it is a file.
mosaic_output_path_unchecked(files, env, end_date, mask_product_name, n) ==
    generate_mosaic_output_path(env, end_date, mask_product_name, n)

\* The loop of MosaicCreator.__generate_mosaic_output_path: `while file_path.exists()`.
RECURSIVE mosaic_output_path(_, _, _, _, _)
mosaic_output_path(files, env, end_date, mask_product_name, n) ==
    IF generate_mosaic_output_path(env, end_date, mask_product_name, n) \in DOMAIN files
    THEN mosaic_output_path(files, env, end_date, mask_product_name, n + 1)
    ELSE generate_mosaic_output_path(env, end_date, mask_product_name, n)

\* os.environ as MosaicCreator reads it.
MosaicEnviron == [CFSI_OUTPUT_CONTAINER |-> "/output"]

\* The product and the end date of the MosaicCreator that create_mosaics makes first.
MosaicProduct == cm_config.products[1]
MosaicEndDate == cm_config.dates[1]

MosaicLog(entry) == Append(cm_log, [run |-> cm_runs] @@ entry)

InitMosaicRun ==
    /\ cm_config \in [products : {<<"s2_level1c_fmask">>,
                                  <<"s2_level1c_s2cloudless", "s2_level1c_fmask">>},
                      dates : {<<12>>},
                      range : {2}]
    /\ cm_pc = "start" /\ cm_runs = 0 /\ cm_error = "" /\ mask_datasets = <<>>
    /\ \E existing \in SUBSET {0, 1} :
         mosaic_files = [path \in {generate_mosaic_output_path(MosaicEnviron,
                                                               DateStr(MosaicEndDate),
                                                               MosaicProduct, n) :
                                     n \in existing} |-> 1]
    /\ cm_log = <<>>
    /\ catalog \in MosaicCatalogs /\ catalog_log = <<>>
    /\ IdleMosaic /\ IdleMask /\ IdleThreshold /\ IdleUpsert /\ IdleCrawl /\ IdleDocs /\ IdleWorkers /\ IdleUtils /\ IdleCli /\ IdleShadow /\ IdleBands

\* create_mosaics is started, the first time or after a run that an exception ended.
StartCreateMosaics ==
    /\ cm_pc \in {"start", "raised"}
    /\ cm_runs < MaxMosaicRuns
    /\ cm_runs' = cm_runs + 1
    /\ cm_pc' = "MosaicCreator"
    /\ cm_error' = ""
    /\ mask_datasets' = <<>>
    /\ UNCHANGED <<cm_config, mosaic_files, cm_log, varsCatalog, othersMosaicRun>>

\* mosaic_creator = MosaicCreator(product, date_, days)
NewMosaicCreator ==
    /\ cm_pc = "MosaicCreator"
    /\ LET got == get_mask_datasets(catalog, MosaicProduct,
                                    <<MosaicEndDate - cm_config.range, MosaicEndDate>>)
       IN /\ mask_datasets' = got.datasets
          /\ cm_error' = got.raised
          /\ cm_pc' = IF got.raised = "" THEN "create_mosaic_dataset" ELSE "raised"
          /\ cm_log' = MosaicLog([step |-> "MosaicCreator", datasets |-> got.datasets,
                                  raised |-> got.raised])
    /\ UNCHANGED <<cm_config, cm_runs, mosaic_files, varsCatalog, othersMosaicRun>>

\* mosaic_ds = mosaic_creator.create_mosaic_dataset(): the masks are paired with their L2A
\* datasets, the two stacks are loaded and reduced (SpecMosaic).
CreateMosaicDataset ==
    /\ cm_pc = "create_mosaic_dataset"
    /\ LET paired == generate_mask_dict(catalog, mask_datasets, 1, <<>>)
       IN /\ cm_error' = paired.raised
          /\ cm_pc' = IF paired.raised = "" THEN "write_mosaic_to_file" ELSE "raised"
          /\ cm_log' = MosaicLog([step |-> "create_mosaic_dataset", datasets |-> mask_datasets,
                                  mask_dict |-> paired.mask_dict, raised |-> paired.raised])
    /\ UNCHANGED <<cm_config, cm_runs, mask_datasets, mosaic_files, varsCatalog, othersMosaicRun>>

\* output_mosaic_path = mosaic_creator.write_mosaic_to_file(mosaic_ds)
WriteMosaicToFile ==
    /\ cm_pc = "write_mosaic_to_file"
    /\ LET file_path == mosaic_output_path(mosaic_files, MosaicEnviron, DateStr(MosaicEndDate),
                                           MosaicProduct, 0)
       IN /\ mosaic_files' = WriteFile(mosaic_files, file_path)
          /\ cm_log' = MosaicLog([step |-> "write_mosaic_to_file", path |-> file_path,
                                  existing |-> DOMAIN mosaic_files, raised |-> ""])
    /\ cm_pc' = "index"
    /\ UNCHANGED <<cm_config, cm_runs, cm_error, mask_datasets, varsCatalog, othersMosaicRun>>

\* MosaicIndexer().index(mosaic_ds, output_mosaic_path): MosaicIndexer and ODCIndexer
\* define index_mosaic and index_masks but no index, the call raises AttributeError.
IndexMosaic ==
    /\ cm_pc = "index"
    /\ cm_pc' = "raised"
    /\ cm_error' = "AttributeError"
    /\ cm_log' = MosaicLog([step |-> "index", raised |-> "AttributeError"])
    /\ UNCHANGED <<cm_config, cm_runs, mask_datasets, mosaic_files, varsCatalog, othersMosaicRun>>

NextMosaicRun ==
    \/ StartCreateMosaics \/ NewMosaicCreator \/ CreateMosaicDataset
    \/ WriteMosaicToFile \/ IndexMosaic

SpecMosaicRun == InitMosaicRun /\ [][NextMosaicRun]_vars

(***************************************************************************)
(* Properties of create_mosaics                                            *)
(***************************************************************************)

\* C17 (as stated): the document MosaicIndexer builds for the mosaic file of the mask
\* product P, <outputRoot>/mosaics/<endDate>_<P>_<n>.tif, has the product name P_mosaic.
C17_MosaicProductName ==
    \A b \in built :
        b.builder = "MosaicIndexer.generate_eo3_dataset_doc" =>
            b.doc.product = doc_input.mask_product_name \o "_mosaic"

\* The entries of the log that one step of create_mosaics made.
StepsLogged(step) == {n \in 1..Len(cm_log) : cm_log[n].step = step}

\* C18: the file write_mosaic_to_file writes is <outputRoot>/mosaics/<endDate>_<P>_<n>.tif
\* for the smallest n whose file did not exist, and no mosaic file is written twice.
C18_SmallestFreeNumber ==
    /\ \A w \in StepsLogged("write_mosaic_to_file") :
         \E n \in 0..Cardinality(cm_log[w].existing) :
            /\ cm_log[w].path = generate_mosaic_output_path(MosaicEnviron, DateStr(MosaicEndDate),
                                                            MosaicProduct, n)
            /\ cm_log[w].path = <<"/output", "mosaics",
                                  DateStr(MosaicEndDate) \o "_" \o MosaicProduct \o "_"
                                      \o ToString(n) \o ".tif">>
            /\ cm_log[w].path \notin cm_log[w].existing
            /\ \A m \in 0..(n - 1) :
                  generate_mosaic_output_path(MosaicEnviron, DateStr(MosaicEndDate),
                                              MosaicProduct, m) \in cm_log[w].existing
    /\ \A path \in DOMAIN mosaic_files : mosaic_files[path] = 1

\* Two runs wrote a mosaic each, the first into the gap below a file that was there.
C18_Witness ==
    /\ Cardinality(StepsLogged("write_mosaic_to_file")) = 2
    /\ \E w \in StepsLogged("write_mosaic_to_file") :
         /\ cm_log[w].path = generate_mosaic_output_path(MosaicEnviron, DateStr(MosaicEndDate),
                                                         MosaicProduct, 0)
         /\ cm_log[w].existing # {}
    /\ Cardinality(DOMAIN mosaic_files) = 3

\* C19: when the search of MosaicCreator finds no mask dataset, the run of create_mosaics
\* ends there with ValueError: it builds no mosaic dataset, writes no file, calls no
\* indexer, and the catalog holds no mosaic document.
C19_EmptySearchFails ==
    \A c \in StepsLogged("MosaicCreator") :
        cm_log[c].datasets = <<>> =>
            /\ cm_log[c].raised = "ValueError"
            /\ \A n \in 1..Len(cm_log) :
                  cm_log[n].run = cm_log[c].run => (n = c /\ cm_log[n].step = "MosaicCreator")
            /\ cm_runs = cm_log[c].run => (cm_pc = "raised" /\ cm_error = "ValueError")
            /\ ~\E d \in catalog : EndsWith(d.product, "_mosaic")

\* Two runs in a row failed on a catalog that holds a mask dataset of the product, sensed
\* before the window, and left the mosaic file that was there alone.
C19_Witness ==
    /\ cm_runs = 2 /\ cm_pc = "raised" /\ cm_error = "ValueError"
    /\ \E d \in catalog : d.product = MosaicProduct
    /\ Len(cm_log) = 2
    /\ mosaic_files # <<>>

\* C20 (as stated): __generate_mask_dict never raises; a mask dataset with an
\* l2a_dataset_id is paired with it; one without is paired with the L2A dataset found
\* under the swapped-bucket URI of its L1C dataset, and left out when there is none.
C20_MaskDictPairsOrSkips ==
    \A c \in StepsLogged("create_mosaic_dataset") :
        /\ cm_log[c].raised = ""
        /\ \A n \in 1..Len(cm_log[c].datasets) :
              LET mask == cm_log[c].datasets[n]
                  properties == mask.body.properties
                  l1c_uri == "s3://" \o L1C_BUCKET \o "/" \o properties.s3_key
                  resolved ==
                      IF "l2a_dataset_id" \in DOMAIN properties /\ properties.l2a_dataset_id # NoId
                      THEN CallReturned(properties.l2a_dataset_id)
                      ELSE odcdataset_from_uri(catalog, swap_s2_bucket_names(l1c_uri).returned,
                                               "s2_sen2cor_granule")
              IN IF resolved.raised = ""
                 THEN /\ mask.id \in DOMAIN cm_log[c].mask_dict
                      /\ cm_log[c].mask_dict[mask.id] = resolved.returned
                 ELSE mask.id \notin DOMAIN cm_log[c].mask_dict

(***************************************************************************)
(* The command line: cfsi.py                                               *)
(***************************************************************************)

\* Longest list of action tokens that is explored.
MaxTokens == 2

\* The names of CFSI_CLI.__actions, in their order.
CliActions == <<"build", "start", "init", "stop", "clean", "index", "mask", "mosaic">>
ActionNames == {CliActions[k] : k \in 1..Len(CliActions)}

\* What __action_from_name returns for a token that names no action.
None == "None"

\* Tokens given on the command line: three actions of cfsi.py, an action only cli.py knows,
\* and a word that is no action anywhere.
Tokens == {"start", "index", "mask", "deploy", "bogus"}

RECURSIVE TokenLists(_)
TokenLists(n) ==
    IF n = 0 THEN {<<>>}
    ELSE TokenLists(n - 1) \cup {Append(l, t) : l \in {x \in TokenLists(n - 1) : Len(x) = n - 1}, t \in Tokens}

\* Action.excludes is [False] for every action: False equals no token.
excludes(action) == {}

action_from_name(action_name) == IF action_name \in ActionNames THEN action_name ELSE None

actions_from_names(action_names) ==
    [k \in 1..Len(action_names) |-> action_from_name(action_names[k])]

\* ', '.join(parts)
RECURSIVE Join(_, _)
Join(parts, sep) ==
    IF parts = <<>> THEN ""
    ELSE IF Len(parts) = 1 THEN parts[1]
    ELSE parts[1] \o sep \o Join(Tail(parts), sep)

\* __check_action_combination_valid: "" when it returns, the message of its ValueError
\* when it raises.
check_action_combination_valid(actions) ==
    LET action_names == {actions[k] : k \in 1..Len(actions)}
        conflicting_actions ==
            UNION {{<<actions[k], x>> : x \in excludes(actions[k]) \cap action_names} :
                       k \in 1..Len(actions)}
    IN IF conflicting_actions # {}
       THEN "The following pair(s) of actions cause conflicts"
       ELSE ""

\* Mutant of validate_args: the detach flag is not looked at.
validate_args_without_detach(args) ==
    LET actions == actions_from_names(args.actions)
    IN IF \E k \in 1..Len(actions) : actions[k] = None
       THEN "Invalid action(s): "
            \o Join(SelectSeq(args.actions, LAMBDA t : action_from_name(t) = None), ", ")
       ELSE check_action_combination_valid(actions)

\* __validate_args: "" when it returns, the message of its ValueError when it raises.
validate_args(args) ==
    IF args.detach /\ Len(args.actions) > 1
    THEN "Optional argument detach only works whena single action argument is given!"
    ELSE LET actions == actions_from_names(args.actions)
         IN IF \E k \in 1..Len(actions) : actions[k] = None
            THEN "Invalid action(s): "
                 \o Join(SelectSeq(args.actions, LAMBDA t : action_from_name(t) = None), ", ")
            ELSE check_action_combination_valid(actions)

\* How the method of an action can end: mask and mosaic are `pass`; the others call
\* __run_command, where subprocess.run returns, raises CalledProcessError (caught and
\* printed) or raises another exception, such as FileNotFoundError when docker-compose is
\* not installed.
MethodOutcomes(action) ==
    IF action \in {"mask", "mosaic"} THEN {"returns"}
    ELSE {"returns", "CalledProcessError", "FileNotFoundError"}

InitCli ==
    /\ cli_argv \in {[actions |-> a, detach |-> d] :
                        a \in TokenLists(MaxTokens) \ {<<>>}, d \in BOOLEAN}
    /\ cli_pc = "main"
    /\ cli_ran = <<>>
    /\ cli_stdout = <<>>
    /\ cli_error = ""
    /\ cli_exit = <<>>
    /\ IdleMosaic /\ IdleMask /\ IdleThreshold /\ IdleCatalog /\ IdleUpsert /\ IdleCrawl /\ IdleDocs /\ IdleWorkers /\ IdleUtils /\ IdleMosaicRun /\ IdleShadow /\ IdleBands

\* CFSI_CLI.__init__ up to __run_methods: __handle_args parses and validates the arguments,
\* and the optional arguments are printed.
HandleArgs ==
    /\ cli_pc = "main"
    /\ LET message == validate_args(cli_argv)
       IN IF message # ""
          THEN /\ cli_error' = message
               /\ cli_pc' = "except"
               /\ UNCHANGED cli_stdout
          ELSE /\ cli_stdout' = Append(cli_stdout,
                                       IF cli_argv.detach THEN "Namespace(detach=True)"
                                       ELSE "Namespace(detach=False)")
               /\ cli_pc' = "run_methods"
               /\ UNCHANGED cli_error
    /\ UNCHANGED <<cli_argv, cli_ran, cli_exit>>
    /\ UNCHANGED <<varsCatalog, othersCli>>

\* One iteration of the loop of __run_methods: the next method is called.
RunMethod ==
    /\ cli_pc = "run_methods"
    /\ Len(cli_ran) < Len(cli_argv.actions)
    /\ LET action == actions_from_names(cli_argv.actions)[Len(cli_ran) + 1]
       IN /\ cli_ran' = Append(cli_ran, action)
          /\ \E outcome \in MethodOutcomes(action) :
                /\ cli_stdout' = IF outcome = "CalledProcessError"
                                 THEN cli_stdout \o <<"", " CalledProcessError">>
                                 ELSE cli_stdout
                /\ cli_error' = IF outcome = "FileNotFoundError" THEN outcome ELSE cli_error
                /\ cli_pc' = IF outcome = "FileNotFoundError" THEN "except" ELSE cli_pc
    /\ UNCHANGED <<cli_argv, cli_exit>>
    /\ UNCHANGED <<varsCatalog, othersCli>>

\* The loop of __run_methods is exhausted: exit(0) at the end of __init__.
ExitSuccess ==
    /\ cli_pc = "run_methods"
    /\ Len(cli_ran) = Len(cli_argv.actions)
    /\ cli_exit' = <<0>>
    /\ cli_pc' = "exited"
    /\ UNCHANGED <<cli_argv, cli_ran, cli_stdout, cli_error>>
    /\ UNCHANGED <<varsCatalog, othersCli>>

\* `except Exception as error` of the main block: the message is printed and the process
\* exits with 1.
ExitFailure ==
    /\ cli_pc = "except"
    /\ cli_stdout' = Append(cli_stdout, "Unhandled exception:  " \o cli_error)
    /\ cli_exit' = <<1>>
    /\ cli_pc' = "exited"
    /\ UNCHANGED <<cli_argv, cli_ran, cli_error>>
    /\ UNCHANGED <<varsCatalog, othersCli>>

NextCli == HandleArgs \/ RunMethod \/ ExitSuccess \/ ExitFailure

SpecCli == InitCli /\ [][NextCli]_vars

(***************************************************************************)
(* Properties of the command line                                          *)
(***************************************************************************)

\* The command line is one the validation is to refuse: --detach with more than one token,
\* or a token that is not an action of cfsi.py. (No two actions are declared exclusive.)
InvalidCommandLine ==
    \/ cli_argv.detach /\ Len(cli_argv.actions) > 1
    \/ \E k \in 1..Len(cli_argv.actions) :
         cli_argv.actions[k] \notin {"build", "start", "init", "stop", "clean", "index", "mask", "mosaic"}

\* C23 (as stated): no action method is called on an invalid command line, which ends in
\* a single printed line and exit code 1; on a valid command line the methods are called in
\* the order of the tokens and the exit code is 0.
C23_ValidationBeforeActions ==
    /\ (cli_ran # <<>> => ~InvalidCommandLine)
    /\ cli_pc = "exited" =>
         IF InvalidCommandLine
         THEN cli_exit = <<1>> /\ cli_ran = <<>> /\ Len(cli_stdout) = 1
         ELSE cli_exit = <<0>> /\ cli_ran = cli_argv.actions

\* C23 (amended): no action method is called on an invalid command line, which ends in a
\* single printed line and exit code 1; on a valid command line the methods are called in
\* the order of the tokens, and the exit code is 0 when every method was called and none
\* raised, and 1, after an 'Unhandled exception' line, when a method raised and kept the
\* methods after it from being called.
C23_ValidationThenRun ==
    /\ (cli_ran # <<>> => ~InvalidCommandLine)
    /\ cli_pc = "exited" =>
         IF InvalidCommandLine
         THEN cli_exit = <<1>> /\ cli_ran = <<>> /\ Len(cli_stdout) = 1
         ELSE /\ cli_ran = SubSeq(cli_argv.actions, 1, Len(cli_ran))
              /\ \/ cli_exit = <<0>> /\ cli_error = "" /\ cli_ran = cli_argv.actions
                 \/ /\ cli_exit = <<1>>
                    /\ cli_error = "FileNotFoundError"
                    /\ cli_ran # <<>>
                    /\ cli_stdout[Len(cli_stdout)] = "Unhandled exception:  FileNotFoundError"

\* C23 witness: `start bogus` was refused with one line and exit code 1, start not called.
C23_Witness ==
    /\ cli_pc = "exited"
    /\ cli_argv.actions = <<"start", "bogus">>
    /\ ~cli_argv.detach
    /\ cli_exit = <<1>>
    /\ cli_ran = <<>>
    /\ cli_stdout = <<"Unhandled exception:  Invalid action(s): bogus">>

(***************************************************************************)
(* The order of the steps on one tile, in the mask run and in the crawl    *)
(***************************************************************************)

\* Runs of the mask generator and runs of the crawl of s2_index.py, each on its own
\* catalog: a behaviour is either one of the mask generator or one of the crawl.
NextTileSteps == (pcMask # "idle" /\ NextMask) \/ (pcMask = "idle" /\ NextCrawl)

SpecTileSteps == (InitMask \/ InitCrawl) /\ [][NextTileSteps]_vars

\* The raster a mask document names as its measurement has been written.
RasterWritten(doc) ==
    \E path \in DOMAIN file_writes :
        /\ PathStr(path) = doc.body.measurements[1]
        /\ file_writes[path] >= 1

\* The document is the one of a key whose metadata.xml was fetched and could be parsed.
FetchedAndParsed(doc) ==
    \E bucket_name \in DOMAIN s3_objects : \E key \in DOMAIN s3_objects[bucket_name] :
        /\ doc.uri = get_s3_uri(bucket_name, key)
        /\ FetchCount(fetches, bucket_name, key) >= 1
        /\ s3_objects[bucket_name][key] # "malformed xml"

\* C24: every mask document in the catalog or in the accumulator of the run names a raster
\* that the mask step has written, every document that the crawl added belongs to a key
\* whose metadata.xml was fetched and parsed, and a step that adds a document is the
\* indexing step that follows the mask step, or the parse step that follows the fetch.
C24_StepsInOrder ==
    /\ [](\A doc \in catalog :
            IF doc.product = "s2a_level1c_fmask" THEN RasterWritten(doc) ELSE FetchedAndParsed(doc))
    /\ [](\A n \in 1..Len(indexed_masks) : RasterWritten(indexed_masks[n]))
    /\ [][catalog' # catalog => (pcMask = "index_masks" \/ pcCrawl = "parse")]_vars

\* C24 witness: the run has written the raster of its first candidate and then added the
\* mask document to the catalog and to the accumulator.
C24_Witness ==
    /\ pcMask = "continue_iteration"
    /\ Len(indexed_masks) = 1
    /\ indexed_masks[1] \in catalog
    /\ indexed_masks[1].product = "s2a_level1c_fmask"
    /\ RasterWritten(indexed_masks[1])

(***************************************************************************)
(* Cloud shadow masks: generate_cloud_shadow_masks of s2cloudless_masks.py *)
(***************************************************************************)

\* The rows and columns of the images that are explored.
ShadowRows == 1..2
ShadowCols == 1..2

\* The projected offsets x = cos(az) * distance and y = sin(az) * distance are floats; they
\* are given in halves of a pixel, so that values between two integers are among them.
Halves == {-3, -2, -1, 0, 1, 2, 3}

\* int(v) of a float given in halves: truncation towards zero.
IntOfHalves(h) == IF h >= 0 THEN h \div 2 ELSE -((-h) \div 2)

Abs(n) == IF n >= 0 THEN n ELSE -n

\* The index pairs of a two-dimensional numpy array, counted from 1.
Index(rows, cols) == (1..rows) \X (1..cols)

\* A two-dimensional numpy array: its shape and its values.
Array(rows, cols, values) == [shape |-> <<rows, cols>>, values |-> values]

Images ==
    {Array(2, 2, [p \in Index(2, 2) |-> f[p[1]][p[2]]]) :
        f \in [ShadowRows -> [ShadowCols -> {0, 1}]]}

\* new_rows = np.zeros(...) followed by new_rows[:] = 1.
Padding(rows, cols) == Array(rows, cols, [p \in Index(rows, cols) |-> 1])

\* np.append(a, b, axis=0) of arrays with the same number of columns.
AppendRows(a, b) ==
    LET rows == a.shape[1] + b.shape[1]
    IN Array(rows, a.shape[2],
             [p \in Index(rows, a.shape[2]) |->
                 IF p[1] <= a.shape[1] THEN a.values[p]
                 ELSE b.values[<<p[1] - a.shape[1], p[2]>>]])

\* np.append(a, b, axis=1) of arrays with the same number of rows.
AppendCols(a, b) ==
    LET cols == a.shape[2] + b.shape[2]
    IN Array(a.shape[1], cols,
             [p \in Index(a.shape[1], cols) |->
                 IF p[2] <= a.shape[2] THEN a.values[p]
                 ELSE b.values[<<p[1], p[2] - a.shape[2]>>]])

\* a[k:, :] for k >= 0.
RowsFrom(a, k) ==
    LET rows == IF a.shape[1] > k THEN a.shape[1] - k ELSE 0
    IN Array(rows, a.shape[2],
             [p \in Index(rows, a.shape[2]) |-> a.values[<<p[1] + k, p[2]>>]])

\* a[:k, :] for k <= 0: all but the last -k rows, and no row at all for k = 0.
RowsTo(a, k) ==
    LET rows == IF k < 0 /\ a.shape[1] + k > 0 THEN a.shape[1] + k ELSE 0
    IN Array(rows, a.shape[2], [p \in Index(rows, a.shape[2]) |-> a.values[p]])

\* a[:, k:] for k >= 0.
ColsFrom(a, k) ==
    LET cols == IF a.shape[2] > k THEN a.shape[2] - k ELSE 0
    IN Array(a.shape[1], cols,
             [p \in Index(a.shape[1], cols) |-> a.values[<<p[1], p[2] + k>>]])

\* a[:, :k] for k <= 0: all but the last -k columns, and no column at all for k = 0.
ColsTo(a, k) ==
    LET cols == IF k < 0 /\ a.shape[2] + k > 0 THEN a.shape[2] + k ELSE 0
    IN Array(a.shape[1], cols, [p \in Index(a.shape[1], cols) |-> a.values[p]])

\* generate_cloud_shadow_masks; dark_pixels is np.where(nir_array <= DARK_PIXEL_THRESHOLD,
\* 1, 0).  np.append along axis 1 raises ValueError when the row counts differ, and np.where
\* raises ValueError when the shapes of its operands cannot be broadcast (no dimension of
\* an image is 1 here, so that is when they differ).
generate_cloud_shadow_masks(cloud_mask_array, dark_pixels, x, y) ==
    LET rows == cloud_mask_array.shape[1]
        cols == cloud_mask_array.shape[2]
        new_rows == Padding(Abs(IntOfHalves(y)), cols)
        new_cols == Padding(rows, Abs(IntOfHalves(x)))
        shifted_rows ==
            IF y > 0
            THEN RowsFrom(AppendRows(cloud_mask_array, new_rows), IntOfHalves(y))
            ELSE RowsTo(AppendRows(new_rows, cloud_mask_array), IntOfHalves(y))
        shadow_mask_array ==
            IF x < 0
            THEN ColsTo(AppendCols(new_cols, shifted_rows), IntOfHalves(x))
            ELSE ColsFrom(AppendCols(shifted_rows, new_cols), IntOfHalves(x))
    IN IF shifted_rows.shape[1] # new_cols.shape[1]
       THEN [shadow_mask_array |-> shifted_rows, raised |-> "ValueError"]
       ELSE IF shadow_mask_array.shape # cloud_mask_array.shape
       THEN [shadow_mask_array |-> shadow_mask_array, raised |-> "ValueError"]
       ELSE [shadow_mask_array |-> shadow_mask_array, raised |-> "",
             returned |-> Array(rows, cols,
                                [p \in Index(rows, cols) |->
                                    IF /\ cloud_mask_array.values[p] = 0
                                       /\ shadow_mask_array.values[p] = 1
                                       /\ dark_pixels.values[p] = 1
                                    THEN 1 ELSE 0])]

InitShadow ==
    /\ shadow_args \in [cloud_mask_array : Images, dark_pixels : Images, x : Halves, y : Halves]
    /\ shadow_result = <<>>
    /\ IdleMosaic /\ IdleMask /\ IdleThreshold /\ IdleCatalog /\ IdleUpsert /\ IdleCrawl /\ IdleDocs /\ IdleWorkers /\ IdleUtils /\ IdleMosaicRun /\ IdleCli /\ IdleBands

\* A call of generate_cloud_shadow_masks.
CallGenerateShadowMasks ==
    /\ shadow_args # <<>>
    /\ shadow_result = <<>>
    /\ shadow_result' = generate_cloud_shadow_masks(shadow_args.cloud_mask_array,
                                                    shadow_args.dark_pixels,
                                                    shadow_args.x, shadow_args.y)
    /\ UNCHANGED shadow_args
    /\ UNCHANGED <<varsCatalog, othersShadow>>

NextShadow == CallGenerateShadowMasks

SpecShadow == InitShadow /\ [][NextShadow]_vars

\* The cloud mask has a pixel at (r, c).
InImage(r, c) ==
    /\ r \in 1..shadow_args.cloud_mask_array.shape[1]
    /\ c \in 1..shadow_args.cloud_mask_array.shape[2]

\* C26 (as stated): a pixel (r, c) of the returned shadow mask is 1 only if the shifted
\* source position (r + dy, c + dx) lies in the image and the cloud mask is 1 there.
C26_NoShadowFromPadding ==
    (shadow_result # <<>> /\ shadow_result.raised = "") =>
        LET dy == IntOfHalves(shadow_args.y)
            dx == IntOfHalves(shadow_args.x)
        IN \A r \in ShadowRows, c \in ShadowCols :
             shadow_result.returned.values[<<r, c>>] = 1 =>
                /\ InImage(r + dy, c + dx)
                /\ shadow_args.cloud_mask_array.values[<<r + dy, c + dx>>] = 1

\* C27 (as stated): when the row shift int(y) is 0 the shifted cloud mask has the rows of
\* the cloud mask, when the column shift int(x) is 0 it has its columns, and when both are
\* 0 it equals the cloud mask, in shape and element for element.
C27_ZeroShiftIsIdentity ==
    shadow_result # <<>> =>
        LET dy == IntOfHalves(shadow_args.y)
            dx == IntOfHalves(shadow_args.x)
            cloud == shadow_args.cloud_mask_array
            shifted == shadow_result.shadow_mask_array
        IN /\ dy = 0 => shifted.shape[1] = cloud.shape[1]
           /\ dx = 0 => shifted.shape[2] = cloud.shape[2]
           /\ (dx = 0 /\ dy = 0) => (shadow_result.raised = "" /\ shifted = cloud)

(***************************************************************************)
(* The band files of a tile: fetch_s2_jp2_files                            *)
(***************************************************************************)

\* How many of the 13 band files may be missing from a directory that is explored.
MaxMissing == 2

\* The Sentinel-2 L1C bands.
Bands == {"B01", "B02", "B03", "B04", "B05", "B06", "B07", "B08", "B8A", "B09", "B10", "B11", "B12"}

\* The name of the file of a band in IMG_DATA, and of the true colour image.
BandFile(band) == "IMG_DATA/T35PPM_20201010T083829_" \o band \o ".jp2"
TrueColourFile == "IMG_DATA/T35PPM_20201010T083829_TCI.jp2"

\* The characters of the file names, in the order of their code points.
CodePoints == "./0123456789ABCDEFGHIJKLMNOPQRSTUVWXYZ_abcdefghijklmnopqrstuvwxyz"

ord(c) == CHOOSE n \in 1..Len(CodePoints) : SubSeq(CodePoints, n, n) = c

\* a < b for Python strings: the first character that differs decides, a proper prefix is
\* smaller.
RECURSIVE StrLess(_, _)
StrLess(a, b) ==
    IF b = "" THEN FALSE
    ELSE IF a = "" THEN TRUE
    ELSE IF SubSeq(a, 1, 1) = SubSeq(b, 1, 1)
         THEN StrLess(SubSeq(a, 2, Len(a)), SubSeq(b, 2, Len(b)))
         ELSE ord(SubSeq(a, 1, 1)) < ord(SubSeq(b, 1, 1))

\* glob.glob(str(image_path) + "/*B??.jp2"): the names that end with B, two characters and
\* .jp2; glob gives them in no particular order.
glob(names) ==
    {name \in names : /\ Len(name) >= 7
                      /\ EndsWith(name, ".jp2")
                      /\ SubSeq(name, Len(name) - 6, Len(name) - 6) = "B"}

\* jp2_files.sort() of a list of distinct names.
RECURSIVE sort(_)
sort(names) ==
    IF names = {} THEN <<>>
    ELSE LET least == CHOOSE a \in names : \A b \in names \ {a} : StrLess(a, b)
         IN <<least>> \o sort(names \ {least})

\* Mutant of insert: the item is put at the end of the list.
insert_last(list, position, item) == Append(list, item)

\* list.insert(position, item) for a position that is not negative, positions from 0.
insert(list, position, item) ==
    IF position >= Len(list) THEN Append(list, item)
    ELSE SubSeq(list, 1, position) \o <<item>> \o SubSeq(list, position + 1, Len(list))

\* fetch_s2_jp2_files after the fetch: the list it returns and whether it logs the
\* 'Unexpected number of images' warning; jp2_files[-1] of an empty list raises IndexError.
fetch_s2_jp2_files(names) ==
    LET sorted == sort(glob(names))
    IN IF sorted = <<>> THEN [raised |-> "IndexError"]
       ELSE LET inserted == insert(sorted, 8, sorted[Len(sorted)])
                jp2_files == SubSeq(inserted, 1, Len(inserted) - 1)
            IN [raised |-> "", returned |-> jp2_files, warning |-> Len(jp2_files) # 13]

\* The directories explored: the band files with at most MaxMissing of them missing, with
\* or without the true colour image.
RECURSIVE Subsets(_, _)
Subsets(S, n) ==
    IF n = 0 THEN {{}}
    ELSE Subsets(S, n - 1) \cup {T \cup {x} : T \in {U \in Subsets(S, n - 1) : Cardinality(U) = n - 1}, x \in S}

InitBands ==
    /\ \E missing \in Subsets(Bands, MaxMissing) : \E extra \in SUBSET {TrueColourFile} :
         img_data = {BandFile(band) : band \in Bands \ missing} \cup extra
    /\ jp2_result = <<>>
    /\ IdleMosaic /\ IdleMask /\ IdleThreshold /\ IdleCatalog /\ IdleUpsert /\ IdleCrawl /\ IdleDocs /\ IdleWorkers /\ IdleUtils /\ IdleMosaicRun /\ IdleCli /\ IdleShadow

\* A call of fetch_s2_jp2_files on the fetched directory.
FetchS2Jp2Files ==
    /\ img_data # {}
    /\ jp2_result = <<>>
    /\ jp2_result' = fetch_s2_jp2_files(img_data)
    /\ UNCHANGED img_data
    /\ UNCHANGED <<varsCatalog, othersBands>>

NextBands == FetchS2Jp2Files

SpecBands == InitBands /\ [][NextBands]_vars

\* C28: for a directory that holds the 13 band files, fetch_s2_jp2_files returns the 13
\* files in the order B01 .. B08, B8A, B09 .. B12, so that B08 is at index 7 and B8A at
\* index 8 (counted from 0), each listed file once, and without the warning.
C28_BandOrder ==
    (jp2_result # <<>> /\ \A band \in Bands : BandFile(band) \in img_data) =>
        /\ jp2_result.raised = ""
        /\ ~jp2_result.warning
        /\ jp2_result.returned =
             [n \in 1..13 |-> BandFile(<<"B01", "B02", "B03", "B04", "B05", "B06", "B07", "B08",
                                         "B8A", "B09", "B10", "B11", "B12">>[n])]
        /\ {jp2_result.returned[n] : n \in 1..Len(jp2_result.returned)} = glob(img_data)
        /\ Len(jp2_result.returned) = Cardinality(glob(img_data))

\* C28 witness: the call on a full directory, with the true colour image beside the bands,
\* has returned B08 at index 7 and B8A at index 8.
C28_Witness ==
    /\ jp2_result # <<>>
    /\ Cardinality(img_data) = 14
    /\ Len(jp2_result.returned) = 13
    /\ jp2_result.returned[8] = BandFile("B08")
    /\ jp2_result.returned[9] = BandFile("B8A")

====
